---- MODULE Spec2Model ----
(***************************************************************************)
(* ResumeForge pipeline orchestration engine: the state machine of         *)
(* PipelineOrchestrator.run, its checkpoint files, the agents' result      *)
(* cache and the interactive audit-failure handler.                        *)
(*                                                                         *)
(* Spec            one fresh call of run(), which may be killed            *)
(* SpecFair        the same call left alone, with its steps taken fairly   *)
(* SpecResume      a fresh call followed by calls resumed from the latest  *)
(*                 checkpoint, each with or without a handler              *)
(* SpecTransitions the transition table looked up on its own               *)
(* SpecStale       one fresh call of run() that may find a writer result   *)
(*                 stored for an earlier evidence file                     *)
(* SpecValidate    validate_state called on blackboards on its own         *)
(* SpecCache       the result cache and its file backend on their own      *)
(* SpecShared      the checkpoint directory used by runs of several titles *)
(* SpecInjected    one fresh call of run() with an auditor handed in       *)
(* SpecRepair      _repair_json applied to truncated JSON texts            *)
(* SpecRevision    the REVISION stage applied to blackboards on its own    *)
(* SpecTTL         cache entries stored with a time to live, while time    *)
(*                 passes                                                  *)
(*                                                                         *)
(* Optional values (Python None) are sequences: <<>> is None, <<v>> is v.  *)
(* Lists of the blackboard are sequences; an empty list is <<>>.           *)
(***************************************************************************)
EXTENDS Integers, Sequences, FiniteSets, TLC

(***************************************************************************)
(* Bounds of the model                                                     *)
(***************************************************************************)
MaxRuns == 2            \* calls of run() in one behaviour: a fresh run and
                        \* the resumed runs that follow it
MaxConfigRetries == 1   \* largest max_retries a config file sets
MaxAdds == 1            \* add-evidence decisions of the handler in one run
MaxProbeRetries == 4    \* largest retry_count and max_retries looked up
MaxExecutions == 6      \* executions of one stage in one run
CallSeconds == 1        \* seconds one call of a collaborator takes
MaxDepth == 2           \* nesting depth of the JSON documents repaired
MaxViolations == 2      \* truth violations in the audit report revised
MaxTTL == 2             \* largest ttl_seconds an entry is stored with
MaxClock == 3           \* seconds that pass while the cache is used

(***************************************************************************)
(* Program constants                                                       *)
(***************************************************************************)
DefaultMaxRetries == 3  \* Blackboard.max_retries default
TitleLimit == 50        \* safe_title[:50]
FilterDenominator == 5  \* len(relevant) < len(all_cards) * 0.2
KeyShortLen == 16       \* key[:16]


None == <<>>
Some(v) == <<v>>
IsNone(o) == o = <<>>
Truthy(s) == s # <<>>   \* Python truthiness of a list / optional

Range(s) == {s[i] : i \in 1..Len(s)}

(***************************************************************************)
(* Inputs the environment can supply                                       *)
(***************************************************************************)
JobDescriptions == {"jd1", "jd2"}
\* the job description of a fresh run, and what job_description_override
\* can be on a resume: absent or another job description
FreshJobDescription == "jd1"
Overrides == {None, Some("jd2")}
\* target titles as sequences of characters
Titles == {<<"Q", "A">>}
\* ids of the cards in the evidence file, in file order
FileCards == <<"c1", "c2">>
\* what config.pipeline holds for max_retries: absent or a number
ConfigChoices == {None} \cup {Some(n) : n \in 0..MaxConfigRetries}

(***************************************************************************)
(* PipelineState and the transition table                                  *)
(***************************************************************************)
PipelineState == {"INIT", "PREPROCESSING", "JD_ANALYSIS", "EVIDENCE_MAPPING",
                  "WRITING", "AUDITING", "REVISION", "COMPLETE", "FAILED"}

\* state.name.lower()
StepName(s) ==
    CASE s = "INIT" -> "init"
      [] s = "PREPROCESSING" -> "preprocessing"
      [] s = "JD_ANALYSIS" -> "jd_analysis"
      [] s = "EVIDENCE_MAPPING" -> "evidence_mapping"
      [] s = "WRITING" -> "writing"
      [] s = "AUDITING" -> "auditing"
      [] s = "REVISION" -> "revision"
      [] s = "COMPLETE" -> "complete"
      [] s = "FAILED" -> "failed"

TRANSITIONS == <<
    [from_state |-> "INIT", to_state |-> "PREPROCESSING", condition |-> "always"],
    [from_state |-> "PREPROCESSING", to_state |-> "JD_ANALYSIS", condition |-> "always"],
    [from_state |-> "JD_ANALYSIS", to_state |-> "EVIDENCE_MAPPING", condition |-> "always"],
    [from_state |-> "EVIDENCE_MAPPING", to_state |-> "WRITING", condition |-> "always"],
    [from_state |-> "WRITING", to_state |-> "AUDITING", condition |-> "always"],
    [from_state |-> "AUDITING", to_state |-> "COMPLETE", condition |-> "passed"],
    [from_state |-> "AUDITING", to_state |-> "REVISION", condition |-> "retry"],
    [from_state |-> "AUDITING", to_state |-> "FAILED", condition |-> "exhausted"],
    [from_state |-> "REVISION", to_state |-> "WRITING", condition |-> "always"] >>

\* the lambdas of TRANSITIONS, applied to a blackboard b
\* (GuardExhaustedOffByOne: the third guard with > in place of >=)
GuardExhaustedOffByOne(b) ==
    /\ ~IsNone(b.audit_report)
    /\ ~b.audit_report[1].passed
    /\ b.retry_count > b.max_retries

\* (a first guard that never holds)
GuardPassedNever(b) == FALSE

\* (a first guard that takes a missing report for a passed one)
GuardPassedOrAbsent(b) == IsNone(b.audit_report) \/ b.audit_report[1].passed

GuardPassed(b) == ~IsNone(b.audit_report) /\ b.audit_report[1].passed

GuardRetry(b) ==
    /\ ~IsNone(b.audit_report)
    /\ ~b.audit_report[1].passed
    /\ b.retry_count < b.max_retries

GuardExhausted(b) ==
    /\ ~IsNone(b.audit_report)
    /\ ~b.audit_report[1].passed
    /\ b.retry_count >= b.max_retries

Condition(c, b) ==
    CASE c = "always" -> TRUE
      [] c = "passed" -> GuardPassed(b)
      [] c = "retry" -> GuardRetry(b)
      [] c = "exhausted" -> GuardExhausted(b)

\* "Normal transition logic" of _get_next_state: the first transition out of
\* current whose condition holds, or None
NormalTransition(current, b) ==
    LET matching == {i \in 1..Len(TRANSITIONS) :
                        /\ TRANSITIONS[i].from_state = current
                        /\ Condition(TRANSITIONS[i].condition, b)}
    IN IF matching = {} THEN None
       ELSE Some(TRANSITIONS[CHOOSE i \in matching : \A j \in matching : i <= j].to_state)

(***************************************************************************)
(* Blackboard                                                              *)
(***************************************************************************)
\* the declared fields of the pydantic model (inputs flattened)
FieldNames == {"job_description", "target_title", "evidence_cards", "synonyms_map",
               "role_profile", "requirements", "evidence_map", "gap_resolutions",
               "selected_evidence_ids", "resume_draft", "claim_index", "change_log",
               "ats_report", "audit_report", "current_step", "retry_count",
               "max_retries"}

\* Blackboard(inputs=Inputs(...)) as the caller builds it: every other field
\* at its default.  attrs are the undeclared attributes put into __dict__
\* (the cache handle, the metrics collector); they are no fields.
NewBlackboard(jd, title) ==
    [job_description |-> jd,
     target_title |-> title,
     evidence_cards |-> <<>>,
     synonyms_map |-> None,
     role_profile |-> None,
     requirements |-> <<>>,
     evidence_map |-> <<>>,
     gap_resolutions |-> <<>>,
     selected_evidence_ids |-> <<>>,
     resume_draft |-> None,
     claim_index |-> <<>>,
     change_log |-> <<>>,
     ats_report |-> None,
     audit_report |-> None,
     current_step |-> "init",
     retry_count |-> 0,
     max_retries |-> DefaultMaxRetries,
     attrs |-> {}]

Fields(b) == [f \in FieldNames |-> b[f]]

\* ClaimMapping.validate_against_cards
validate_against_cards(claim, available_ids) ==
    Range(claim.evidence_card_ids) \subseteq available_ids

\* Blackboard.validate_state: the list of errors (each with the ids it names)
StepErrors(b) ==
    (IF b.current_step \in {"evidence_mapping", "writing", "auditing"}
     THEN (IF ~Truthy(b.role_profile)
           THEN <<[msg |-> "role_profile required", ids |-> {}]>> ELSE <<>>)
          \o (IF ~Truthy(b.requirements)
              THEN <<[msg |-> "requirements required", ids |-> {}]>> ELSE <<>>)
     ELSE <<>>)
    \o
    (IF b.current_step \in {"writing", "auditing"}
     THEN (IF ~Truthy(b.evidence_map)
           THEN <<[msg |-> "evidence_map required", ids |-> {}]>> ELSE <<>>)
          \o (IF ~Truthy(b.selected_evidence_ids)
              THEN <<[msg |-> "selected_evidence_ids required", ids |-> {}]>> ELSE <<>>)
     ELSE <<>>)
    \o
    (IF b.current_step = "auditing"
     THEN (IF ~Truthy(b.resume_draft)
           THEN <<[msg |-> "resume_draft required", ids |-> {}]>> ELSE <<>>)
          \o (IF ~Truthy(b.claim_index)
              THEN <<[msg |-> "claim_index required", ids |-> {}]>> ELSE <<>>)
     ELSE <<>>)

RECURSIVE ClaimErrors(_, _)
ClaimErrors(claims, available_ids) ==
    IF claims = <<>> THEN <<>>
    ELSE (IF ~validate_against_cards(Head(claims), available_ids)
          THEN <<[msg |-> "claim references non-existent evidence cards",
                  ids |-> Range(Head(claims).evidence_card_ids) \ available_ids]>>
          ELSE <<>>)
         \o ClaimErrors(Tail(claims), available_ids)

SelectedErrors(b) ==
    LET missing == Range(b.selected_evidence_ids) \ Range(b.evidence_cards)
    IN IF Truthy(b.selected_evidence_ids) /\ missing # {}
       THEN <<[msg |-> "selected_evidence_ids references non-existent cards",
               ids |-> missing]>>
       ELSE <<>>

validate_errors(b) ==
    StepErrors(b) \o ClaimErrors(b.claim_index, Range(b.evidence_cards))
                  \o SelectedErrors(b)

\* (a validation that checks the step's prerequisites only)
validate_state_steps_only(b) == StepErrors(b) = <<>>

validate_state(b) == validate_errors(b) = <<>>

(***************************************************************************)
(* Checkpoint files                                                        *)
(***************************************************************************)
Min(a, b) == IF a < b THEN a ELSE b

\* c.lower() on the characters the titles use
Lower(c) ==
    CASE c = "Q" -> "q"
      [] c = "A" -> "a"
      [] OTHER -> c

IsAlnum(c) == c \in {"q", "a", "d", "0"}

\* the file-name stem of a title: lower case, every character that is not
\* alphanumeric, "-" or "_" replaced by "-", cut to 50 characters
SafeTitle(title) ==
    [i \in 1..Min(Len(title), TitleLimit) |->
        LET c == Lower(title[i])
        IN IF IsAlnum(c) \/ c \in {"-", "_"} THEN c ELSE "-"]

\* <safe_title>-latest.json
LatestName(title) ==
    [stem |-> SafeTitle(title), kind |-> "latest", ts |-> 0]

\* (a checkpoint written straight into the latest file)
CheckpointNameIsLatest(title, state, ts) == LatestName(title)

\* <safe_title>-<state>-<timestamp>.json
CheckpointName(title, state, ts) ==
    [stem |-> SafeTitle(title), kind |-> StepName(state), ts |-> ts]

\* (a dump of the inputs only)
model_dump_inputs_only(b) == Fields(NewBlackboard(b.job_description, b.target_title))

\* blackboard.model_dump(mode="json"): the declared fields only
model_dump(b) == Fields(b)

\* (a dump that stores the stage's name as current_step)
CheckpointDataStageStep(b, state, ts) ==
    [k \in FieldNames \cup {"_checkpoint_metadata"} |->
        IF k = "_checkpoint_metadata"
        THEN [timestamp |-> ts, state |-> state, step |-> b.current_step]
        ELSE IF k = "current_step" THEN StepName(state)
        ELSE model_dump(b)[k]]

\* the JSON object _save_checkpoint writes
CheckpointData(b, state, ts) ==
    [k \in FieldNames \cup {"_checkpoint_metadata"} |->
        IF k = "_checkpoint_metadata"
        THEN [timestamp |-> ts, state |-> state, step |-> b.current_step]
        ELSE model_dump(b)[k]]

\* data.pop("_checkpoint_metadata", {}) of _load_checkpoint
PopMetadata(data) ==
    [k \in DOMAIN data \ {"_checkpoint_metadata"} |-> data[k]]

\* Blackboard.model_validate(data): a fresh object holding the declared
\* fields found in data; undeclared keys are ignored
model_validate(data) ==
    [k \in FieldNames \cup {"attrs"} |-> IF k = "attrs" THEN {} ELSE data[k]]

\* the content of a file: <<>> while it is open for writing and not yet
\* written in full (json.load fails on it), else <<the JSON object>>
Partial == <<>>
Written(data) == <<data>>
IsComplete(content) == content # Partial

\* _load_checkpoint on a file json.load can read
LoadCheckpoint(content) == model_validate(PopMetadata(content[1]))

(***************************************************************************)
(* Result cache of the agents (LLMResultCache): one namespace per agent,   *)
(* each a set of [key, payload] entries with at most one entry per key.    *)
(* dc is the orchestrator's disable_cache flag (the no-op backend).        *)
(***************************************************************************)
EmptyCache == [jd_analyst |-> {}, resume_writer |-> {}, auditor |-> {}]

CacheGet(c, dc, agent_name, key) ==
    IF dc THEN None
    ELSE LET found == {e \in c[agent_name] : e.key = key}
         IN IF found = {} THEN None ELSE Some((CHOOSE e \in found : TRUE).payload)

\* (a set that stores whatever the flag says)
CacheSetIgnoresFlag(c, dc, agent_name, key, payload) ==
    [c EXCEPT ![agent_name] =
        {e \in @ : e.key # key} \cup {[key |-> key, payload |-> payload]}]

CacheSet(c, dc, agent_name, key, payload) ==
    IF dc THEN c
    ELSE [c EXCEPT ![agent_name] =
            {e \in @ : e.key # key} \cup {[key |-> key, payload |-> payload]}]

(***************************************************************************)
(* The cache in detail (utils/cache.py): LLMResultCache over a backend.    *)
(* A Python value handed to the cache is a string [str |-> s] or a list    *)
(* of strings [list |-> <<...>>]; *cache_inputs is a tuple of such values. *)
(***************************************************************************)
\* json.dumps(args, sort_keys=True, default=str) on a tuple of strings and
\* lists: the text, token by token.  Lists keep the order of their elements
\* (sort_keys sorts the keys of dicts only).
json_value(v) ==
    IF "list" \in DOMAIN v THEN <<"[">> \o v.list \o <<"]">> ELSE <<v.str>>

RECURSIVE json_items(_)
json_items(args) ==
    IF args = <<>> THEN <<>> ELSE json_value(Head(args)) \o json_items(Tail(args))

json_dumps(args) == <<"[">> \o json_items(args) \o <<"]">>

\* hex digests, cut after the first character that _get_cache_path ignores:
\* the first two agree on their first KeyShortLen characters
Zeros(n) == [i \in 1..n |-> "0"]
Digests == {Zeros(KeyShortLen) \o <<"a">>,
            Zeros(KeyShortLen) \o <<"b">>,
            <<"1">> \o Zeros(KeyShortLen - 1) \o <<"a">>}

\* the argument tuples handed to the cache: a text and a list of ids, in
\* either order of the ids
CacheInputs == {<<[str |-> "jd1"], [list |-> ids]>>
                    : ids \in {<<"c1", "c2">>, <<"c2", "c1">>}}

\* hashlib.sha256: some function from texts to digests under which distinct
\* texts have distinct digests; nothing keeps two digests from agreeing on
\* their first characters
Sha256Functions ==
    {h \in [{json_dumps(args) : args \in CacheInputs} -> Digests] :
        \A t1, t2 \in DOMAIN h : h[t1] = h[t2] => t1 = t2}

\* LLMResultCache.compute_hash with sha the digest function
compute_hash(sha, args) == sha[json_dumps(args)]

\* FileCacheBackend._get_cache_path: f"{namespace}-{key[:16]}.json"
get_cache_path(key, namespace) ==
    [namespace |-> namespace, key_short |-> SubSeq(key, 1, Min(KeyShortLen, Len(key)))]

\* FileCacheBackend.get at time t: the value returned (None or Some) and
\* the directory left behind (an expired entry is unlinked)
FileGetUnverified(dir, key, namespace, t) ==
    LET cache_file == get_cache_path(key, namespace)
    IN IF cache_file \notin DOMAIN dir THEN [value |-> None, dir |-> dir]
       ELSE [value |-> Some(dir[cache_file].result), dir |-> dir]

FileGet(dir, key, namespace, t) ==
    LET cache_file == get_cache_path(key, namespace)
    IN IF cache_file \notin DOMAIN dir THEN [value |-> None, dir |-> dir]
       ELSE LET data == dir[cache_file]
            IN IF data.hash # key THEN [value |-> None, dir |-> dir]
               ELSE IF data.expires_at # None /\ t > data.expires_at[1]
               THEN [value |-> None,
                     dir |-> [f \in DOMAIN dir \ {cache_file} |-> dir[f]]]
               ELSE [value |-> Some(data.result), dir |-> dir]

\* FileCacheBackend.set at time t; ttl_seconds is None or Some(n)
FileSet(dir, key, namespace, value, ttl_seconds, t) ==
    LET cache_file == get_cache_path(key, namespace)
        cache_data == [hash |-> key, namespace |-> namespace, result |-> value,
                       expires_at |-> IF ttl_seconds # None /\ ttl_seconds[1] # 0
                                      THEN Some(t + ttl_seconds[1]) ELSE None]
    IN [f \in DOMAIN dir \cup {cache_file} |->
            IF f = cache_file THEN cache_data ELSE dir[f]]

\* FileCacheBackend.delete
FileDelete(dir, key, namespace) ==
    [f \in DOMAIN dir \ {get_cache_path(key, namespace)} |-> dir[f]]

\* (a clear that ignores its namespace)
FileClearAll(dir, namespace) == [f \in {} |-> dir[f]]

\* FileCacheBackend.clear: glob(f"{namespace}-*.json"), or "*.json" when no
\* namespace is given.  The names of the agents hold no "-" and no glob
\* character, so the pattern matches the files of the namespace.
FileClear(dir, namespace) ==
    IF namespace # None /\ namespace[1] # ""
    THEN [f \in {g \in DOMAIN dir : g.namespace # namespace[1]} |-> dir[f]]
    ELSE [f \in {} |-> dir[f]]

\* backend.get, backend.set, backend.delete, backend.clear of the backend
\* get_llm_cache built: NoOpCacheBackend (noop) or FileCacheBackend
BackendGet(noop, dir, key, namespace, t) ==
    IF noop THEN [value |-> None, dir |-> dir] ELSE FileGet(dir, key, namespace, t)

BackendSet(noop, dir, key, namespace, value, ttl_seconds, t) ==
    IF noop THEN dir ELSE FileSet(dir, key, namespace, value, ttl_seconds, t)

BackendDelete(noop, dir, key, namespace) ==
    IF noop THEN dir ELSE FileDelete(dir, key, namespace)

BackendClear(noop, dir, namespace) ==
    IF noop THEN dir ELSE FileClear(dir, namespace)

NoCacheFiles == [f \in {} |-> None]

(***************************************************************************)
(* What the collaborators (the LLM behind each agent) can answer           *)
(***************************************************************************)
\* a role profile is known by the job description it was inferred from and
\* by its keywords: "k1" occurs in the text of card c1 only, "kall" in the
\* text of every card.  The first job description asks for k1, the other
\* for kall.
Keyword(jd) == IF jd = FreshJobDescription THEN "k1" ELSE "kall"
RoleProfileOptions(jd) == {[src |-> jd, kw |-> Keyword(jd)]}
RequirementsOf(jd) == <<[id |-> "r1", src |-> jd]>>
KeywordInCard(kw, card) == kw = "kall" \/ (kw = "k1" /\ card = "c1")

Drafts == {"d1"}
ChangeLogs == {<<"note">>}
\* audits: passed, failed with one truth violation, failed without any
AuditReports == {[passed |-> TRUE, truth_violations |-> 0],
                 [passed |-> FALSE, truth_violations |-> 1],
                 [passed |-> FALSE, truth_violations |-> 0]}

\* selections the evidence mapper can return: nothing or the first card
SelectionOptions(cards) == {<<>>, <<cards[1]>>}

\* what parse_response of the evidence mapper can leave behind: the mappings
\* whose requirement and cards exist, and the selected ids that exist.  The
\* two lists are filtered independently (lines 194-302), so a selection can
\* come with no mapping at all
MappingOptions(cards) ==
    UNION {{[evidence_map |-> m, selected |-> sel] :
                m \in {<<>>} \cup (IF sel = <<>> THEN {}
                                   ELSE {<<[requirement_id |-> "r1",
                                           evidence_card_ids |-> sel]>>})}
           : sel \in SelectionOptions(cards)}

\* the cards a claim of the writer can cite: the selected cards that exist
Citable(b) ==
    SelectSeq(b.selected_evidence_ids, LAMBDA id : id \in Range(b.evidence_cards))

(***************************************************************************)
(* Stage executions.  Each gives the set of ways the stage can end:        *)
(* raised (an exception left the stage), the blackboard and the cache it   *)
(* leaves behind, and whether the collaborator was called.                 *)
(***************************************************************************)
Outcome(raised, b, c, llm) == [raised |-> raised, b |-> b, cache |-> c, llm |-> llm]

\* _preprocess with config.pipeline.max_retries = cfg (None when absent)
PreprocessOutcomes(b, c, cfg) ==
    LET b1 == IF cfg = None THEN b ELSE [b EXCEPT !.max_retries = cfg[1]]
    IN {Outcome(TRUE, b1, c, FALSE),
        Outcome(FALSE, [b1 EXCEPT !.evidence_cards = FileCards,
                                  !.synonyms_map = Some("base")], c, FALSE)}

\* JDAnalystAgent through BaseAgent.execute
JDAnalysisOutcomes(b, c, dc) ==
    LET key == <<b.job_description, b.target_title>>
        hit == CacheGet(c, dc, "jd_analyst", key)
    IN IF hit # None
       THEN {Outcome(FALSE, [b EXCEPT !.role_profile = Some(hit[1].role_profile),
                                      !.requirements = hit[1].requirements,
                                      !.current_step = "jd_analysis"], c, FALSE)}
       ELSE {Outcome(TRUE, b, c, TRUE)}
            \cup {Outcome(FALSE,
                          [b EXCEPT !.role_profile = Some(rp),
                                    !.requirements = RequirementsOf(b.job_description),
                                    !.current_step = "jd_analysis"],
                          CacheSet(c, dc, "jd_analyst", key,
                                   [role_profile |-> rp,
                                    requirements |-> RequirementsOf(b.job_description)]),
                          TRUE) : rp \in RoleProfileOptions(b.job_description)}

\* _filter_relevant_evidence_cards with the keywords of role profile rp
filter_relevant_evidence_cards(all_cards, rp) ==
    LET relevant == SelectSeq(all_cards, LAMBDA card : KeywordInCard(rp.kw, card))
    IN IF Len(all_cards) = 0 THEN relevant
       ELSE IF FilterDenominator * Len(relevant) < Len(all_cards) THEN all_cards
       ELSE relevant

\* EVIDENCE_MAPPING: the pre-filter, then EvidenceMapperAgent (which has no
\* cache key and so always calls its collaborator)
EvidenceMappingOutcomes(b, c) ==
    LET b1 == IF Truthy(b.role_profile)
              THEN [b EXCEPT !.evidence_cards =
                        filter_relevant_evidence_cards(b.evidence_cards, b.role_profile[1])]
              ELSE b
        ready == Truthy(b1.role_profile) /\ Truthy(b1.requirements)
                     /\ Truthy(b1.evidence_cards)
    IN IF ~ready THEN {Outcome(TRUE, b1, c, FALSE)}
       ELSE {Outcome(TRUE, b1, c, TRUE)}
            \cup {Outcome(FALSE,
                          [b1 EXCEPT !.evidence_map = a.evidence_map,
                                     !.gap_resolutions = <<>>,
                                     !.selected_evidence_ids = a.selected,
                                     !.current_step = "evidence_mapping_complete"],
                          c, TRUE) : a \in MappingOptions(b1.evidence_cards)}

\* ResumeWriterAgent.get_cache_key_inputs: None without a role profile or a
\* selection; sorted tuples are sets here
WriterKey(b) ==
    IF ~Truthy(b.role_profile) \/ ~Truthy(b.selected_evidence_ids) THEN None
    ELSE Some([role_profile |-> b.role_profile[1],
               selected |-> Range(b.selected_evidence_ids),
               evidence_map |-> {[requirement_id |-> m.requirement_id,
                                  evidence_card_ids |-> Range(m.evidence_card_ids)]
                                 : m \in Range(b.evidence_map)},
               gaps |-> Range(b.gap_resolutions)])

\* ResumeWriterAgent through BaseAgent.execute
WritingOutcomes(b, c, dc) ==
    LET key == WriterKey(b)
        hit == IF key = None THEN None ELSE CacheGet(c, dc, "resume_writer", key[1])
        ready == /\ Truthy(b.role_profile)
                 /\ Truthy(b.selected_evidence_ids)
                 /\ Truthy(b.evidence_cards)
                 /\ Range(b.selected_evidence_ids) \cap Range(b.evidence_cards) # {}
    IN IF hit # None
       THEN {Outcome(FALSE, [b EXCEPT !.resume_draft = Some(hit[1].resume_draft),
                                      !.claim_index = hit[1].claim_index,
                                      !.change_log = hit[1].change_log,
                                      !.current_step = "writing"], c, FALSE)}
       ELSE IF ~ready THEN {Outcome(TRUE, b, c, FALSE)}
       ELSE {Outcome(TRUE, b, c, TRUE)}
            \cup {Outcome(FALSE,
                          [b EXCEPT !.resume_draft = Some(w.draft),
                                    !.claim_index = w.claims,
                                    !.change_log = w.log,
                                    !.current_step = "writing"],
                          CacheSet(c, dc, "resume_writer", key[1],
                                   [resume_draft |-> w.draft, claim_index |-> w.claims,
                                    change_log |-> w.log]),
                          TRUE)
                  : w \in {[draft |-> d, log |-> l,
                            claims |-> <<[bullet_id |-> "b1",
                                          evidence_card_ids |-> <<Citable(b)[1]>>]>>]
                           : d \in Drafts, l \in ChangeLogs}}

\* AuditorAgent.get_cache_key_inputs
AuditorKey(b) ==
    IF ~Truthy(b.resume_draft) \/ ~Truthy(b.evidence_cards) THEN None
    ELSE Some([resume_content |-> b.resume_draft[1],
               evidence_card_ids |-> Range(b.evidence_cards)])

\* AuditorAgent.execute: ATS scoring, then the truth audit through
\* BaseAgent.execute
AuditingOutcomes(b, c, dc) ==
    IF ~Truthy(b.resume_draft) \/ ~Truthy(b.role_profile)
    THEN {Outcome(TRUE, b, c, FALSE)}
    ELSE
    LET b1 == [b EXCEPT !.ats_report = Some("ats")]
        key == AuditorKey(b1)
        hit == IF key = None THEN None ELSE CacheGet(c, dc, "auditor", key[1])
        ready == Truthy(b1.claim_index) /\ Truthy(b1.evidence_cards)
    IN IF hit # None
       THEN {Outcome(FALSE, [b1 EXCEPT !.audit_report = Some(hit[1]),
                                       !.current_step = "auditing"], c, FALSE)}
       ELSE IF ~ready THEN {Outcome(TRUE, b1, c, FALSE)}
       ELSE {Outcome(TRUE, b, c, TRUE), Outcome(TRUE, b1, c, TRUE)}
            \cup {Outcome(FALSE,
                          [b1 EXCEPT !.audit_report = Some(r),
                                     !.current_step = "auditing"],
                          CacheSet(c, dc, "auditor", key[1], r), TRUE)
                  : r \in AuditReports}

\* (instructions for the first violation only)
FixInstructionsFirstOnly(n) ==
    IF n = 0 THEN <<>> ELSE <<"FIX REQUIRED", "Problematic text">>

\* the instructions _prepare_revision appends for n truth violations
RECURSIVE FixInstructions(_)
FixInstructions(n) ==
    IF n = 0 THEN <<>> ELSE <<"FIX REQUIRED", "Problematic text">> \o FixInstructions(n - 1)

prepare_revision(b) ==
    IF ~Truthy(b.audit_report) THEN b
    ELSE IF b.audit_report[1].truth_violations = 0 THEN b
    ELSE [b EXCEPT !.change_log =
            @ \o <<"REVISION ATTEMPT", "must be fixed">>
              \o FixInstructions(b.audit_report[1].truth_violations)]

\* (a REVISION that leaves retry_count alone)
RevisionKeepsCount(b, c) == {Outcome(FALSE, prepare_revision(b), c, FALSE)}

\* REVISION in _execute_state
RevisionOutcomes(b, c) ==
    {Outcome(FALSE, prepare_revision([b EXCEPT !.retry_count = @ + 1]), c, FALSE)}

\* _execute_state
execute_state(s, b, c, dc, cfg) ==
    CASE s = "PREPROCESSING" -> PreprocessOutcomes(b, c, cfg)
      [] s = "JD_ANALYSIS" -> JDAnalysisOutcomes(b, c, dc)
      [] s = "EVIDENCE_MAPPING" -> EvidenceMappingOutcomes(b, c)
      [] s = "WRITING" -> WritingOutcomes(b, c, dc)
      [] s = "AUDITING" -> AuditingOutcomes(b, c, dc)
      [] s = "REVISION" -> RevisionOutcomes(b, c)
      [] OTHER -> {Outcome(FALSE, b, c, FALSE)}

(***************************************************************************)
(* State of the engine                                                     *)
(***************************************************************************)
VARIABLES
    pc,             \* position of the process inside run(); "idle" outside
    state,          \* the loop variable `state` of run()
    bb,             \* the blackboard of the run (self._current_blackboard)
    handler,        \* TRUE when an audit_failure_handler was passed to run()
    agents,         \* the agents dict handed to the orchestrator: "real", the
                    \* agents of this repository, or "injected", where the
                    \* auditor is any object with an execute method
    disable_cache,  \* the orchestrator's disable_cache flag
    config,         \* config.pipeline max_retries: None or Some(n)
    files,          \* the .checkpoints directory: file name -> content
    cache,          \* the result cache, shared by all runs
    now,            \* the wall clock, in seconds: a call of a collaborator
                    \* takes CallSeconds, everything else no time
    save,           \* locals of the _save_checkpoint call in progress
    runs,           \* calls of run() so far
    outcome,        \* how the last call of run() ended
    cause,          \* what sent the current run to FAILED
    stats,          \* history: what the current run has executed so far
    origin,         \* history: how the current run was started
    probe,          \* input and result of the last call of a function
                    \* examined on its own
    cache_files,    \* the cache directory: file name -> content
    sha256,         \* the digest function behind compute_hash
    stored          \* history: (agent name, inputs) -> the payload last
                    \* set and not cleared or deleted since

cachevars == <<cache_files, sha256, stored>>

vars == <<pc, state, bb, handler, agents, disable_cache, config, files, cache, now,
          save, runs, outcome, cause, stats, origin, probe, cachevars>>

NoSave == [mode |-> "none", file |-> LatestName(<<>>), data |-> Partial]
NoProbe == [done |-> FALSE, current |-> "INIT",
            b |-> NewBlackboard(FreshJobDescription, <<>>), next |-> None]
NoBlackboard == NewBlackboard(FreshJobDescription, <<>>)
NoOrigin == [kind |-> "none", file |-> LatestName(<<>>), override |-> None,
             stage |-> "INIT", loaded |-> Fields(NoBlackboard)]

\* how a call of run() ended: returned ("complete"), raised ("failed",
\* "load_error") or was killed ("crashed"); where it was, in which state,
\* what had sent it to FAILED, the current_step of its blackboard and the
\* number of checkpoints it had written
Ended(status, at, st, why, step, saved) ==
    [status |-> status, pc |-> at, state |-> st, cause |-> why, step |-> step,
     saved |-> saved]

Stages == {"INIT", "PREPROCESSING", "JD_ANALYSIS", "EVIDENCE_MAPPING", "WRITING",
           "AUDITING", "REVISION"}

\* executions of each stage, calls of each stage's collaborator, calls of
\* _save_checkpoint in the except branch, calls of _save_checkpoint that
\* returned, add-evidence decisions taken, the last stage that executed
\* without raising and left a valid blackboard, calls of the
\* audit_failure_handler and what the last one returned, the verdict of the
\* first audit report the run obtained
NoStats == [executed |-> [s \in Stages |-> 0], llm |-> [s \in Stages |-> 0],
            error_saves |-> 0, saved |-> 0, adds |-> 0, completed |-> "none",
            asked |-> 0, decision |-> None, first_audit |-> "none"]

Executed(st, stage, llm, raised) ==
    [st EXCEPT !.executed[stage] = @ + 1,
               !.llm[stage] = IF llm THEN @ + 1 ELSE @,
               !.error_saves = IF raised /\ stage # "INIT" THEN @ + 1 ELSE @]

Exists(name) == name \in DOMAIN files
Put(fs, name, content) ==
    [n \in DOMAIN fs \cup {name} |-> IF n = name THEN content ELSE fs[n]]
\* (an unlink that removes nothing)
UnlinkNothing(fs, name) == fs
\* path.unlink()
Unlink(fs, name) == [n \in DOMAIN fs \ {name} |-> fs[n]]
NoFiles == [n \in {} |-> Partial]
AgentNames == {"jd_analyst", "resume_writer"}
NothingStored == [e \in AgentNames \X CacheInputs |-> None]
DefaultSha256 == CHOOSE h \in Sha256Functions : TRUE

\* the memory of a process that has ended is gone: the variables of run()
\* are back at their initial values
Forgotten ==
    /\ pc' = "idle"
    /\ state' = "INIT"
    /\ bb' = NoBlackboard
    /\ save' = NoSave
    /\ cause' = "none"
    /\ stats' = NoStats
    /\ origin' = NoOrigin

\* the installation: whether the first call of run() gets an
\* audit_failure_handler (every later call chooses again, line 253), whether
\* the orchestrator is built with disable_cache, what the config file says
Init ==
    /\ pc = "idle"
    /\ state = "INIT"
    /\ bb = NoBlackboard
    /\ handler \in BOOLEAN
    /\ agents = "real"
    /\ disable_cache \in BOOLEAN
    /\ config \in ConfigChoices
    /\ files = NoFiles
    /\ cache = EmptyCache
    /\ now = 0
    /\ save = NoSave
    /\ runs = 0
    /\ outcome = Ended("none", "idle", "INIT", "none", "init", 0)
    /\ cause = "none"
    /\ stats = NoStats
    /\ origin = NoOrigin
    /\ probe = NoProbe
    /\ cache_files = NoCacheFiles
    /\ sha256 = DefaultSha256
    /\ stored = NothingStored

\* get_llm_cache(...) attached to the blackboard (run, lines 323-327)
AttachCache(b) == [b EXCEPT !.attrs = @ \cup {"_llm_cache"}]

\* run(blackboard) without resume_from: orchestrator construction and the
\* prologue of run() up to the loop
StartRun ==
    /\ pc = "idle"
    /\ runs = 0
    /\ \E title \in Titles :
        bb' = AttachCache(NewBlackboard(FreshJobDescription, title))
    /\ origin' = [NoOrigin EXCEPT !.kind = "fresh"]
    /\ state' = "INIT"
    /\ pc' = "exec"
    /\ runs' = runs + 1
    /\ outcome' = Ended("running", "idle", "INIT", "none", "init", 0)
    /\ UNCHANGED <<cachevars, agents, handler, disable_cache, config, files, cache, now, save, cause,
                   stats, probe>>

\* (a mapping that continues after a completed stage)
StateOfStepAfter(step) ==
    CASE step = "init" -> "INIT"
      [] step = "preprocessing" -> "PREPROCESSING"
      [] step = "jd_analysis" -> "JD_ANALYSIS"
      [] step = "evidence_mapping" -> "EVIDENCE_MAPPING"
      [] step = "writing" -> "WRITING"
      [] step = "auditing" -> "AUDITING"
      [] step = "revision" -> "REVISION"
      [] step = "complete" -> "COMPLETE"
      [] step = "failed" -> "FAILED"
      [] step = "jd_analysis_complete" -> "EVIDENCE_MAPPING"
      [] step = "evidence_mapping_complete" -> "WRITING"
      [] step = "writing_complete" -> "AUDITING"
      [] step = "auditing_complete" -> "AUDITING"
      [] OTHER -> "INIT"

\* the state a checkpoint's current_step maps back to (run, lines 289-319)
StateOfStep(step) ==
    CASE step = "init" -> "INIT"
      [] step = "preprocessing" -> "PREPROCESSING"
      [] step = "jd_analysis" -> "JD_ANALYSIS"
      [] step = "evidence_mapping" -> "EVIDENCE_MAPPING"
      [] step = "writing" -> "WRITING"
      [] step = "auditing" -> "AUDITING"
      [] step = "revision" -> "REVISION"
      [] step = "complete" -> "COMPLETE"
      [] step = "failed" -> "FAILED"
      [] step = "jd_analysis_complete" -> "JD_ANALYSIS"
      [] step = "evidence_mapping_complete" -> "EVIDENCE_MAPPING"
      [] step = "writing_complete" -> "WRITING"
      [] step = "auditing_complete" -> "AUDITING"
      [] OTHER -> "INIT"

\* (an override that leaves the audit report in place)
ApplyOverrideKeepsAudit(b, override) ==
    IF override = None THEN b
    ELSE LET b1 == [b EXCEPT !.job_description = override[1]]
         IN IF b1.current_step \notin {"init", "preprocessing", "jd_analysis"}
            THEN [b1 EXCEPT !.current_step = "jd_analysis",
                            !.role_profile = None,
                            !.requirements = <<>>,
                            !.evidence_map = <<>>,
                            !.gap_resolutions = <<>>,
                            !.selected_evidence_ids = <<>>,
                            !.resume_draft = None,
                            !.claim_index = <<>>,
                            !.ats_report = None]
            ELSE b1

\* the job_description_override branch of run (lines 259-287)
ApplyOverride(b, override) ==
    IF override = None THEN b
    ELSE LET b1 == [b EXCEPT !.job_description = override[1]]
         IN IF b1.current_step \notin {"init", "preprocessing", "jd_analysis"}
            THEN [b1 EXCEPT !.current_step = "jd_analysis",
                            !.role_profile = None,
                            !.requirements = <<>>,
                            !.evidence_map = <<>>,
                            !.gap_resolutions = <<>>,
                            !.selected_evidence_ids = <<>>,
                            !.resume_draft = None,
                            !.claim_index = <<>>,
                            !.ats_report = None,
                            !.audit_report = None]
            ELSE b1

\* _find_latest_checkpoint
find_latest_checkpoint(fs, title) ==
    IF LatestName(title) \in DOMAIN fs THEN Some(LatestName(title)) ELSE None

\* the file a resume starts from: the one _find_latest_checkpoint returns
\* for some title (the --resume-latest option)
Resumable(fs) ==
    {find_latest_checkpoint(fs, title)[1] :
        title \in {t \in Titles : find_latest_checkpoint(fs, t) # None}}

\* run(resume_from=f, job_description_override=override) on a checkpoint
\* file that loads
ResumeRun ==
    /\ pc = "idle"
    /\ runs < MaxRuns
    /\ \E f \in Resumable(files), override \in Overrides :
        /\ IsComplete(files[f])
        /\ LET loaded == LoadCheckpoint(files[f])
               b1 == ApplyOverride(loaded, override)
           IN /\ bb' = AttachCache(b1)
              /\ state' = StateOfStep(b1.current_step)
              /\ pc' = IF StateOfStep(b1.current_step) \in {"COMPLETE", "FAILED"}
                       THEN "finish" ELSE "exec"
              /\ origin' = [kind |-> "resume", file |-> f, override |-> override,
                            stage |-> files[f][1]["_checkpoint_metadata"].state,
                            loaded |-> Fields(loaded)]
    /\ handler' \in BOOLEAN
    /\ runs' = runs + 1
    /\ outcome' = Ended("running", "idle", "INIT", "none", "init", 0)
    /\ UNCHANGED <<cachevars, agents, disable_cache, config, files, cache, now, save, cause,
                   stats, probe>>

\* run(resume_from=f) on a file that json.load cannot read: _load_checkpoint
\* raises OrchestrationError and run() ends before the loop
ResumeUnreadable ==
    /\ pc = "idle"
    /\ runs < MaxRuns
    /\ \E f \in Resumable(files) : ~IsComplete(files[f])
    /\ runs' = runs + 1
    /\ outcome' = Ended("load_error", "idle", "INIT", "none", "init", 0)
    /\ UNCHANGED <<cachevars, agents, pc, state, bb, handler, disable_cache, config, files, cache,
                   now, save, cause, stats, origin, probe>>

(***************************************************************************)
(* One iteration of the loop of run()                                      *)
(***************************************************************************)
\* lines 342-361 and 380-397: mark the step, execute the stage, validate.
\* A stage that raised goes to the except branch, an invalid blackboard to
\* FAILED, a valid one to the checkpoint (not for INIT) and the transition.
\* An injected auditor may, besides what the repository's auditor does,
\* return the blackboard as it was given.
ExecuteState ==
    /\ pc = "exec"
    /\ stats.executed[state] < MaxExecutions
    /\ \E o \in execute_state(state, [bb EXCEPT !.current_step = StepName(state)],
                              cache, disable_cache, config)
                \cup (IF agents = "injected" /\ state = "AUDITING"
                      THEN {Outcome(FALSE, [bb EXCEPT !.current_step = StepName(state)],
                                    cache, FALSE)}
                      ELSE {}) :
        /\ cache' = o.cache
        /\ now' = IF o.llm THEN now + CallSeconds ELSE now
        /\ stats' = LET st == IF state = "AUDITING" /\ ~o.raised
                                    /\ o.b.audit_report # None
                                    /\ stats.first_audit = "none"
                                 THEN [stats EXCEPT !.first_audit =
                                          IF o.b.audit_report[1].passed
                                          THEN "passed" ELSE "failed"]
                                 ELSE stats
                     IN IF ~o.raised /\ validate_state(o.b)
                        THEN [Executed(st, state, o.llm, o.raised)
                                 EXCEPT !.completed = state]
                        ELSE Executed(st, state, o.llm, o.raised)
        /\ IF o.raised
           THEN /\ bb' = IF state = "INIT" THEN [o.b EXCEPT !.current_step = "failed"]
                         ELSE o.b
                /\ cause' = "exception"
                /\ IF state = "INIT"
                   THEN pc' = "finish" /\ state' = "FAILED" /\ save' = NoSave
                   ELSE pc' = "save_open" /\ state' = state
                        /\ save' = [NoSave EXCEPT !.mode = "error"]
           ELSE IF ~validate_state(o.b)
           THEN /\ bb' = [o.b EXCEPT !.current_step = "failed"]
                /\ cause' = "validation"
                /\ pc' = "finish" /\ state' = "FAILED" /\ save' = NoSave
           ELSE /\ bb' = o.b
                /\ cause' = cause
                /\ state' = state
                /\ IF state = "INIT"
                   THEN pc' = "next" /\ save' = NoSave
                   ELSE pc' = "save_open" /\ save' = [NoSave EXCEPT !.mode = "ok"]
    /\ UNCHANGED <<cachevars, agents, handler, disable_cache, config, files, runs, outcome,
                   origin, probe>>

\* _save_checkpoint, lines 133-151: the timestamp is taken, the blackboard
\* dumped, and checkpoint_file opened for writing (created or truncated)
SaveOpen ==
    /\ pc = "save_open"
    /\ LET name == CheckpointName(bb.target_title, state, now)
       IN /\ save' = [save EXCEPT !.file = name,
                                  !.data = Written(CheckpointData(bb, state, now))]
          /\ files' = Put(files, name, Partial)
    /\ pc' = "save_write"
    /\ UNCHANGED <<cachevars, agents, state, bb, handler, disable_cache, config, cache, now, runs,
                   outcome, cause, stats, origin, probe>>

\* _save_checkpoint, lines 151-152: json.dump has written everything and
\* the file is closed
SaveWrite ==
    /\ pc = "save_write"
    /\ files' = Put(files, save.file, save.data)
    /\ pc' = "copy_open"
    /\ UNCHANGED <<cachevars, agents, state, bb, handler, disable_cache, config, cache, now, save,
                   runs, outcome, cause, stats, origin, probe>>

\* shutil.copy2(checkpoint_file, latest_checkpoint), line 159: the
\* destination is opened for writing (created or truncated) ...
CopyOpen ==
    /\ pc = "copy_open"
    /\ files' = Put(files, LatestName(bb.target_title), Partial)
    /\ pc' = "copy_write"
    /\ UNCHANGED <<cachevars, agents, state, bb, handler, disable_cache, config, cache, now, save,
                   runs, outcome, cause, stats, origin, probe>>

\* the position after a _save_checkpoint call that returned or whose
\* exception was swallowed: the transition on the success path (line 368),
\* FAILED on the except path (lines 393-397)
AfterSave(mode) == IF mode = "ok" THEN "next" ELSE "finish"

\* (an except branch that goes to REVISION)
ExceptStateRevision(mode, st) == IF mode = "ok" THEN st ELSE "REVISION"

\* the loop variable after the call: untouched on the success path, FAILED
\* at the end of the except branch (line 393)
ExceptState(mode, st) == IF mode = "ok" THEN st ELSE "FAILED"

\* ... and the content of checkpoint_file copied into it; the call returns
CopyWrite ==
    /\ pc = "copy_write"
    /\ files' = Put(files, LatestName(bb.target_title), files[save.file])
    /\ pc' = AfterSave(save.mode)
    /\ state' = ExceptState(save.mode, state)
    /\ bb' = IF save.mode = "ok" THEN bb ELSE [bb EXCEPT !.current_step = "failed"]
    /\ save' = NoSave
    /\ stats' = [stats EXCEPT !.saved = @ + 1]
    /\ UNCHANGED <<cachevars, agents, handler, disable_cache, config, cache, now, runs, outcome,
                   cause, origin, probe>>

\* an I/O error inside _save_checkpoint, raised by open() of the checkpoint
\* file or by shutil.copy2 before it writes.  On the success path it is
\* caught by the except branch of the loop, which tries to save once more;
\* on the except path it is logged and ignored.
SaveFails ==
    /\ pc \in {"save_open", "copy_open"}
    /\ IF save.mode = "ok"
       THEN /\ pc' = "save_open"
            /\ save' = [NoSave EXCEPT !.mode = "error"]
            /\ cause' = "save_failed"
            /\ stats' = [stats EXCEPT !.error_saves = @ + 1]
            /\ UNCHANGED <<state, bb>>
       ELSE /\ pc' = "finish"
            /\ save' = NoSave
            /\ state' = ExceptState(save.mode, state)
            /\ bb' = [bb EXCEPT !.current_step = "failed"]
            /\ cause' = cause
            /\ stats' = stats
    /\ UNCHANGED <<cachevars, agents, handler, disable_cache, config, files, cache, now, runs,
                   outcome, origin, probe>>

(***************************************************************************)
(* _get_next_state                                                         *)
(***************************************************************************)
\* (a guard that does not look at the verdict of the audit)
HandlerAppliesAnyVerdict(current, b, h) ==
    current = "AUDITING" /\ ~IsNone(b.audit_report) /\ h

\* the guard of the "special handling" branch (lines 540-543)
HandlerApplies(current, b, h) ==
    /\ current = "AUDITING"
    /\ ~IsNone(b.audit_report)
    /\ ~b.audit_report[1].passed
    /\ h

\* what the handler can return: an action and, for a dict, its evidence_text
Decisions ==
    {[action |-> a, evidence_text |-> t] :
        a \in {"proceed", "add_evidence", "add_evidence_and_proceed", "cancel",
               "other"},
        t \in {"", "text"}}

UserCardId(ts) == "user-added-" \o ToString(ts)

\* _add_user_evidence: one card appended, its id made from the clock
add_user_evidence(b, ts) == [b EXCEPT !.evidence_cards = Append(@, UserCardId(ts))]

\* (a branch that completes without touching the verdict)
HandlerResultKeepsVerdict(b, decision, ts) ==
    CASE decision.action = "proceed" -> [b |-> b, next |-> "COMPLETE"]
      [] decision.action = "add_evidence" /\ decision.evidence_text # "" ->
            [b |-> [add_user_evidence(b, ts) EXCEPT
                        !.current_step = "evidence_mapping",
                        !.evidence_map = <<>>,
                        !.gap_resolutions = <<>>,
                        !.selected_evidence_ids = <<>>,
                        !.resume_draft = None,
                        !.claim_index = <<>>,
                        !.ats_report = None,
                        !.audit_report = None],
             next |-> "EVIDENCE_MAPPING"]
      [] decision.action = "add_evidence_and_proceed" /\ decision.evidence_text # "" ->
            [b |-> add_user_evidence(b, ts), next |-> "COMPLETE"]
      [] OTHER -> [b |-> b, next |-> "FAILED"]

\* the blackboard and the state the special-handling branch leaves behind
HandlerResult(b, decision, ts) ==
    CASE decision.action = "proceed" ->
            [b |-> [b EXCEPT !.audit_report = Some([@[1] EXCEPT !.passed = TRUE])],
             next |-> "COMPLETE"]
      [] decision.action = "add_evidence" /\ decision.evidence_text # "" ->
            [b |-> [add_user_evidence(b, ts) EXCEPT
                        !.current_step = "evidence_mapping",
                        !.evidence_map = <<>>,
                        !.gap_resolutions = <<>>,
                        !.selected_evidence_ids = <<>>,
                        !.resume_draft = None,
                        !.claim_index = <<>>,
                        !.ats_report = None,
                        !.audit_report = None],
             next |-> "EVIDENCE_MAPPING"]
      [] decision.action = "add_evidence_and_proceed" /\ decision.evidence_text # "" ->
            [b |-> [add_user_evidence(b, ts) EXCEPT
                        !.audit_report = Some([@[1] EXCEPT !.passed = TRUE])],
             next |-> "COMPLETE"]
      [] OTHER -> [b |-> b, next |-> "FAILED"]

\* lines 368-378 with the normal transition logic of _get_next_state
NextState ==
    /\ pc = "next"
    /\ ~HandlerApplies(state, bb, handler)
    /\ LET next_state == NormalTransition(state, bb)
       IN IF next_state = None
          THEN /\ state' = "FAILED"
               /\ bb' = [bb EXCEPT !.current_step = "failed"]
               /\ cause' = "no_transition"
               /\ pc' = "finish"
          ELSE /\ state' = next_state[1]
               /\ bb' = bb
               /\ cause' = IF next_state[1] = "FAILED" THEN "exhausted" ELSE cause
               /\ pc' = IF next_state[1] \in {"COMPLETE", "FAILED"}
                        THEN "finish" ELSE "exec"
    /\ UNCHANGED <<cachevars, agents, handler, disable_cache, config, files, cache, now, save, runs,
                   outcome, stats, origin, probe>>

\* lines 368-378 with the audit_failure_handler consulted
HandlerDecides ==
    /\ pc = "next"
    /\ HandlerApplies(state, bb, handler)
    /\ \E decision \in Decisions :
        LET r == HandlerResult(bb, decision, now)
            adding == Len(r.b.evidence_cards) > Len(bb.evidence_cards)
        IN /\ adding => stats.adds < MaxAdds
           /\ stats' = [stats EXCEPT !.adds = IF adding THEN @ + 1 ELSE @,
                                     !.asked = @ + 1,
                                     !.decision = Some(decision)]
           /\ bb' = r.b
           /\ state' = r.next
           /\ cause' = IF r.next = "FAILED" THEN "cancel" ELSE cause
           /\ pc' = IF r.next \in {"COMPLETE", "FAILED"} THEN "finish" ELSE "exec"
    /\ UNCHANGED <<cachevars, agents, handler, disable_cache, config, files, cache, now, save, runs,
                   outcome, origin, probe>>

(***************************************************************************)
(* After the loop                                                          *)
(***************************************************************************)
\* lines 399-413 and 424: outputs saved, the latest checkpoint unlinked,
\* the blackboard returned
FinishComplete ==
    /\ pc = "finish"
    /\ state = "COMPLETE"
    /\ files' = LET latest == find_latest_checkpoint(files, bb.target_title)
                IN IF latest = None THEN files ELSE Unlink(files, latest[1])
    /\ outcome' = Ended("complete", "finish", state, cause, "complete", stats.saved)
    /\ Forgotten
    /\ UNCHANGED <<cachevars, agents, handler, disable_cache, config, cache, now, runs, probe>>

\* lines 420-422: the exception run() raises.  Its message holds the
\* blackboard's current_step and nothing else; it is raised after the loop,
\* outside the except branch and without "from", so it has no __cause__.
OrchestrationError(b) ==
    [message |-> <<"Pipeline failed at step: ", b.current_step>>,
     cause |-> None]

\* (a failure that unlinks the latest checkpoint as a completion does)
FinishFailedUnlinks ==
    /\ pc = "finish"
    /\ state = "FAILED"
    /\ files' = LET latest == find_latest_checkpoint(files, bb.target_title)
                IN IF latest = None THEN files ELSE Unlink(files, latest[1])
    /\ outcome' = Ended("failed", "finish", state, cause,
                        OrchestrationError(bb).message[2], stats.saved)
    /\ Forgotten
    /\ UNCHANGED <<cachevars, agents, handler, disable_cache, config, cache, now, runs, probe>>

\* lines 414-422: OrchestrationError raised
FinishFailed ==
    /\ pc = "finish"
    /\ state = "FAILED"
    /\ outcome' = Ended("failed", "finish", state, cause,
                        OrchestrationError(bb).message[2], stats.saved)
    /\ Forgotten
    /\ UNCHANGED <<cachevars, agents, handler, disable_cache, config, files, cache, now, runs, probe>>

(***************************************************************************)
(* Environment                                                             *)
(***************************************************************************)
\* the process is killed at its current position; files and cache stay.
\* The last call explored is not killed: nothing would follow it.
Crash ==
    /\ pc # "idle"
    /\ runs < MaxRuns
    /\ outcome' = Ended("crashed", pc, "INIT", "none", "init", stats.saved)
    /\ Forgotten
    /\ UNCHANGED <<cachevars, agents, handler, disable_cache, config, files, cache, now, runs, probe>>

\* one call of run() on a fresh blackboard, left alone ...
NextRun ==
    \/ StartRun
    \/ ExecuteState
    \/ SaveOpen
    \/ SaveWrite
    \/ CopyOpen
    \/ CopyWrite
    \/ SaveFails
    \/ NextState
    \/ HandlerDecides
    \/ FinishComplete
    \/ FinishFailed

\* ... or killed
Next ==
    \/ NextRun
    \/ Crash

Spec == Init /\ [][Next]_vars

\* run() is one sequential process: while it is not killed and each call
\* it makes returns or raises, it takes its next step
SpecFair == Init /\ [][NextRun]_vars /\ WF_vars(NextRun)

\* a fresh run followed by resumed runs, on an installation whose config
\* file sets max_retries
InitResume == Init /\ config # None

NextResume ==
    \/ Next
    \/ ResumeRun
    \/ ResumeUnreadable

SpecResume == InitResume /\ [][NextResume]_vars

\* The result cache outlives the runs and the evidence file.  An earlier
\* run on an evidence file that still held card "c0" stored a writer result:
\* the writer keeps every cited id that is among the evidence cards of its
\* run (resume_writer.py line 311), selected or not, and its cache key does
\* not hold the evidence cards.  The file has since lost the card.
StaleCache ==
    [EmptyCache EXCEPT !.resume_writer =
        {[key |-> [role_profile |-> [src |-> FreshJobDescription,
                                     kw |-> Keyword(FreshJobDescription)],
                   selected |-> {"c1"},
                   evidence_map |-> {[requirement_id |-> "r1",
                                      evidence_card_ids |-> {"c1"}]},
                   gaps |-> {}],
          payload |-> [resume_draft |-> "d1",
                       claim_index |-> <<[bullet_id |-> "b1",
                                          evidence_card_ids |-> <<"c0">>]>>,
                       change_log |-> <<"note">>]]}]

\* a fresh run on an installation whose cache is empty or holds that result
InitStale ==
    /\ pc = "idle"
    /\ state = "INIT"
    /\ bb = NoBlackboard
    /\ handler \in BOOLEAN
    /\ agents = "real"
    /\ disable_cache \in BOOLEAN
    /\ config \in ConfigChoices
    /\ files = NoFiles
    /\ cache \in {EmptyCache, StaleCache}
    /\ now = 0
    /\ save = NoSave
    /\ runs = 0
    /\ outcome = Ended("none", "idle", "INIT", "none", "init", 0)
    /\ cause = "none"
    /\ stats = NoStats
    /\ origin = NoOrigin
    /\ probe = NoProbe
    /\ cache_files = NoCacheFiles
    /\ sha256 = DefaultSha256
    /\ stored = NothingStored

SpecStale == InitStale /\ [][Next]_vars

\* a fresh run of an orchestrator built with an injected auditor
InitInjected ==
    /\ pc = "idle"
    /\ state = "INIT"
    /\ bb = NoBlackboard
    /\ handler \in BOOLEAN
    /\ agents = "injected"
    /\ disable_cache \in BOOLEAN
    /\ config \in ConfigChoices
    /\ files = NoFiles
    /\ cache = EmptyCache
    /\ now = 0
    /\ save = NoSave
    /\ runs = 0
    /\ outcome = Ended("none", "idle", "INIT", "none", "init", 0)
    /\ cause = "none"
    /\ stats = NoStats
    /\ origin = NoOrigin
    /\ probe = NoProbe
    /\ cache_files = NoCacheFiles
    /\ sha256 = DefaultSha256
    /\ stored = NothingStored

SpecInjected == InitInjected /\ [][Next]_vars

(***************************************************************************)
(* The transition table on its own: _get_next_state without a handler,     *)
(* looked up for a state and a blackboard drawn from bounded sets          *)
(***************************************************************************)
ProbeReports == {None} \cup {Some(r) : r \in AuditReports}

ProbeBlackboards ==
    {[NewBlackboard(FreshJobDescription, <<"Q", "A">>) EXCEPT
        !.audit_report = r, !.retry_count = rc, !.max_retries = mr]
     : r \in ProbeReports, rc \in 0..MaxProbeRetries, mr \in 0..MaxProbeRetries}

InitTransitions ==
    /\ Init
    /\ handler = FALSE
    /\ disable_cache = FALSE
    /\ config = None

\* a state and a blackboard are handed to _get_next_state, which answers
Lookup ==
    /\ pc = "idle"
    /\ ~probe.done
    /\ \E current \in PipelineState, b \in ProbeBlackboards :
        probe' = [done |-> TRUE, current |-> current, b |-> b,
                  next |-> NormalTransition(current, b)]
    /\ UNCHANGED <<cachevars, agents, pc, state, bb, handler, disable_cache, config, files, cache,
                   now, save, runs, outcome, cause, stats, origin>>

\* the next lookup
Forget ==
    /\ probe.done
    /\ probe' = NoProbe
    /\ UNCHANGED <<cachevars, agents, pc, state, bb, handler, disable_cache, config, files, cache,
                   now, save, runs, outcome, cause, stats, origin>>

NextTransitions ==
    \/ Lookup
    \/ Forget

SpecTransitions == InitTransitions /\ [][NextTransitions]_vars

(***************************************************************************)
(* The REVISION stage on its own: _execute_state(REVISION, blackboard) on   *)
(* blackboards as an audit can leave them                                  *)
(***************************************************************************)
RevisionReports ==
    {None, Some([passed |-> TRUE, truth_violations |-> 0])}
        \cup {Some([passed |-> FALSE, truth_violations |-> n]) : n \in 0..MaxViolations}

RevisionBlackboards ==
    {[NewBlackboard(FreshJobDescription, <<"Q", "A">>) EXCEPT
        !.evidence_cards = FileCards,
        !.evidence_map = <<[requirement_id |-> "r1", evidence_card_ids |-> <<"c1">>]>>,
        !.selected_evidence_ids = <<"c1">>,
        !.resume_draft = d,
        !.claim_index = IF d = None THEN <<>>
                        ELSE <<[bullet_id |-> "b1", evidence_card_ids |-> <<"c1">>]>>,
        !.change_log = l,
        !.audit_report = r,
        !.retry_count = rc,
        !.max_retries = mr,
        !.current_step = "revision"]
     : d \in {None} \cup {Some(x) : x \in Drafts},
       l \in {<<>>} \cup ChangeLogs,
       r \in RevisionReports, rc \in 0..MaxProbeRetries,
       mr \in {MaxConfigRetries, DefaultMaxRetries}}

\* a blackboard is handed to _execute_state for REVISION, which returns
Revise ==
    /\ pc = "idle"
    /\ ~probe.done
    /\ \E b \in RevisionBlackboards :
        \E o \in execute_state("REVISION", b, cache, disable_cache, config) :
            probe' = [done |-> TRUE, b |-> b, raised |-> o.raised, result |-> o.b]
    /\ UNCHANGED <<cachevars, agents, pc, state, bb, handler, disable_cache, config, files, cache,
                   now, save, runs, outcome, cause, stats, origin>>

NextRevision ==
    \/ Revise
    \/ Forget

SpecRevision == InitTransitions /\ [][NextRevision]_vars

(***************************************************************************)
(* validate_state on its own, applied to blackboards as the stages leave   *)
(* them: the prerequisites of the step are there, and each identifier a    *)
(* stage output holds is either known or not                               *)
(***************************************************************************)
CardIds == {"c1", "c9"}
RequirementIds == {"r1", "r9"}

GapOptions ==
    {<<>>} \cup {<<[gap_id |-> "r1", strategy |-> "adjacent_experience",
                    adjacent_evidence_ids |-> <<id>>]>> : id \in CardIds}

ValidateBlackboards ==
    {[NewBlackboard(FreshJobDescription, <<"Q", "A">>) EXCEPT
        !.evidence_cards = FileCards,
        !.role_profile = Some([src |-> FreshJobDescription,
                               kw |-> Keyword(FreshJobDescription)]),
        !.requirements = RequirementsOf(FreshJobDescription),
        !.evidence_map = <<[requirement_id |-> rid, evidence_card_ids |-> <<mid>>]>>,
        !.gap_resolutions = gap,
        !.selected_evidence_ids = <<sid>>,
        !.resume_draft = Some("d1"),
        !.claim_index = <<[bullet_id |-> "b1", evidence_card_ids |-> <<cid>>]>>,
        !.current_step = step]
     : rid \in RequirementIds, mid \in CardIds, gap \in GapOptions,
       sid \in CardIds, cid \in CardIds,
       step \in {"evidence_mapping_complete", "writing", "auditing"}}

\* a blackboard is handed to validate_state, which answers (is_valid, errors)
Validate ==
    /\ pc = "idle"
    /\ ~probe.done
    /\ \E b \in ValidateBlackboards :
        probe' = [done |-> TRUE, b |-> b, is_valid |-> validate_state(b),
                  errors |-> validate_errors(b)]
    /\ UNCHANGED <<cachevars, agents, pc, state, bb, handler, disable_cache, config, files, cache,
                   now, save, runs, outcome, cause, stats, origin>>

NextValidate ==
    \/ Validate
    \/ Forget

SpecValidate == InitTransitions /\ [][NextValidate]_vars

(***************************************************************************)
(* The cache on its own: calls of LLMResultCache.set, get, clear and       *)
(* delete in any order, on the backend get_llm_cache built (the no-op      *)
(* backend when disable_cache is set, else the file backend)               *)
(***************************************************************************)
\* result dicts as the agents extract them: JSON objects of strings, which
\* json.dump and json.load give back unchanged
CachePayloads == {[resume_draft |-> d] : d \in {"d1", "d2"}}

InitCache ==
    /\ pc = "idle"
    /\ state = "INIT"
    /\ bb = NoBlackboard
    /\ handler = FALSE
    /\ agents = "real"
    /\ disable_cache \in BOOLEAN
    /\ config = None
    /\ files = NoFiles
    /\ cache = EmptyCache
    /\ now = 0
    /\ save = NoSave
    /\ runs = 0
    /\ outcome = Ended("none", "idle", "INIT", "none", "init", 0)
    /\ cause = "none"
    /\ stats = NoStats
    /\ origin = NoOrigin
    /\ probe = NoProbe
    /\ cache_files = NoCacheFiles
    /\ sha256 \in Sha256Functions
    /\ stored = NothingStored

Called(op, agent_name, args, result) ==
    [done |-> TRUE, op |-> op, agent_name |-> agent_name, args |-> args,
     result |-> result]

\* LLMResultCache.set(agent_name, result, *cache_inputs)
LLMCacheSet ==
    /\ \E agent_name \in AgentNames, args \in CacheInputs, result \in CachePayloads :
        /\ cache_files' = BackendSet(disable_cache, cache_files,
                                     compute_hash(sha256, args), agent_name,
                                     result, None, now)
        /\ stored' = [stored EXCEPT ![<<agent_name, args>>] = Some(result)]
        /\ probe' = Called("set", Some(agent_name), Some(args), None)
    /\ UNCHANGED <<pc, state, bb, handler, agents, disable_cache, config, files, cache,
                   now, save, runs, outcome, cause, stats, origin, sha256>>

\* LLMResultCache.get(agent_name, *cache_inputs)
LLMCacheGet ==
    /\ \E agent_name \in AgentNames, args \in CacheInputs :
        LET r == BackendGet(disable_cache, cache_files,
                            compute_hash(sha256, args), agent_name, now)
        IN /\ cache_files' = r.dir
           /\ probe' = Called("get", Some(agent_name), Some(args), r.value)
    /\ UNCHANGED <<pc, state, bb, handler, agents, disable_cache, config, files, cache,
                   now, save, runs, outcome, cause, stats, origin, sha256, stored>>

\* LLMResultCache.clear(agent_name) and clear()
LLMCacheClear ==
    /\ \E agent_name \in {None} \cup {Some(n) : n \in AgentNames} :
        /\ cache_files' = BackendClear(disable_cache, cache_files, agent_name)
        /\ stored' = [e \in DOMAIN stored |->
                        IF agent_name = None \/ e[1] = agent_name[1]
                        THEN None ELSE stored[e]]
        /\ probe' = Called("clear", agent_name, None, None)
    /\ UNCHANGED <<pc, state, bb, handler, agents, disable_cache, config, files, cache,
                   now, save, runs, outcome, cause, stats, origin, sha256>>

\* LLMResultCache.delete(agent_name, *cache_inputs)
LLMCacheDelete ==
    /\ \E agent_name \in AgentNames, args \in CacheInputs :
        /\ cache_files' = BackendDelete(disable_cache, cache_files,
                                        compute_hash(sha256, args), agent_name)
        /\ stored' = [stored EXCEPT ![<<agent_name, args>>] = None]
        /\ probe' = Called("delete", Some(agent_name), Some(args), None)
    /\ UNCHANGED <<pc, state, bb, handler, agents, disable_cache, config, files, cache,
                   now, save, runs, outcome, cause, stats, origin, sha256>>

NextCache ==
    \/ LLMCacheSet
    \/ LLMCacheGet
    \/ LLMCacheClear
    \/ LLMCacheDelete

SpecCache == InitCache /\ [][NextCache]_vars

(***************************************************************************)
(* Entries with a time to live: LLMResultCache.set with ttl_seconds and    *)
(* get on the file backend, while time passes                              *)
(***************************************************************************)
TTLChoices == {None} \cup {Some(n) : n \in 0..MaxTTL}

InitTTL ==
    /\ InitCache
    /\ disable_cache = FALSE
    /\ sha256 = DefaultSha256

\* LLMResultCache.set(agent_name, result, *cache_inputs, ttl_seconds=ttl);
\* what was asked for is remembered: the result, the ttl and the time
TTLSet ==
    /\ \E args \in CacheInputs, result \in CachePayloads, ttl \in TTLChoices :
        /\ cache_files' = BackendSet(disable_cache, cache_files,
                                     compute_hash(sha256, args), "resume_writer",
                                     result, ttl, now)
        /\ stored' = [stored EXCEPT ![<<"resume_writer", args>>] =
                            Some([result |-> result, ttl |-> ttl, at |-> now])]
        /\ probe' = Called("set", Some("resume_writer"), Some(args), None)
    /\ UNCHANGED <<pc, state, bb, handler, agents, disable_cache, config, files, cache,
                   now, save, runs, outcome, cause, stats, origin, sha256>>

\* LLMResultCache.get(agent_name, *cache_inputs) at the present time
TTLGet ==
    /\ \E args \in CacheInputs :
        LET r == BackendGet(disable_cache, cache_files,
                            compute_hash(sha256, args), "resume_writer", now)
        IN /\ cache_files' = r.dir
           /\ probe' = Called("get", Some("resume_writer"), Some(args), r.value)
    /\ UNCHANGED <<pc, state, bb, handler, agents, disable_cache, config, files, cache,
                   now, save, runs, outcome, cause, stats, origin, sha256, stored>>

\* a second passes
Tick ==
    /\ now < MaxClock
    /\ now' = now + 1
    /\ probe' = NoProbe
    /\ UNCHANGED <<cachevars, pc, state, bb, handler, agents, disable_cache, config, files,
                   cache, save, runs, outcome, cause, stats, origin>>

NextTTL ==
    \/ TTLSet
    \/ TTLGet
    \/ Tick

SpecTTL == InitTTL /\ [][NextTTL]_vars

(***************************************************************************)
(* The checkpoint directory shared by several runs: each run is known by   *)
(* its target title, and what it does to the directory is to save a        *)
(* checkpoint after a stage and to clean up when it completes.  The runs   *)
(* take these steps in any order.                                          *)
(***************************************************************************)
\* target titles that differ from one another as strings
TitlePool == {<<"Q", "A">>, <<"q", "a">>, <<"q", "d">>}

\* _save_checkpoint called by the run with the given title after a stage
PeerSaves ==
    /\ \E title \in TitlePool, stage \in {"PREPROCESSING", "JD_ANALYSIS"} :
        LET b == [NewBlackboard(FreshJobDescription, title)
                     EXCEPT !.current_step = StepName(stage)]
            name == CheckpointName(title, stage, now)
            data == Written(CheckpointData(b, stage, now))
        IN /\ files' = Put(Put(files, name, data), LatestName(title), data)
           /\ probe' = [done |-> TRUE, op |-> "save", title |-> title]
    /\ UNCHANGED <<cachevars, agents, pc, state, bb, handler, disable_cache, config, cache,
                   now, save, runs, outcome, cause, stats, origin>>

\* the cleanup of a run that completes (run, lines 405-411)
PeerCompletes ==
    /\ \E title \in TitlePool :
        LET latest == find_latest_checkpoint(files, title)
        IN /\ files' = IF latest = None THEN files ELSE Unlink(files, latest[1])
           /\ probe' = [done |-> TRUE, op |-> "complete", title |-> title]
    /\ UNCHANGED <<cachevars, agents, pc, state, bb, handler, disable_cache, config, cache,
                   now, save, runs, outcome, cause, stats, origin>>

NextShared ==
    \/ PeerSaves
    \/ PeerCompletes

SpecShared == InitTransitions /\ [][NextShared]_vars

(***************************************************************************)
(* BaseAgent._repair_json (agents/base.py) on its own.  A JSON text is the *)
(* sequence of its tokens, white space left out: punctuation "p", complete *)
(* strings "str", a string whose closing quote is missing "cut", and       *)
(* literals "lit".  The strings hold letters only, and a text has at most  *)
(* one unterminated string, at its end.                                    *)
(***************************************************************************)
Tok(k, v) == [k |-> k, v |-> v]
P(c) == Tok("p", c)
Str(s) == Tok("str", s)
Cut(s) == Tok("cut", s)
Lit(s) == Tok("lit", s)

\* repaired.count(c)
Count(t, c) == Cardinality({i \in 1..Len(t) : t[i] = P(c)})

\* lines 374-399: an odd number of quotes with nothing but the string's
\* letters after the last one: the closing quote is appended
CloseString(t) ==
    IF t # <<>> /\ t[Len(t)].k = "cut"
    THEN [t EXCEPT ![Len(t)] = Str(@.v)]
    ELSE t

ArrayKeys == {"supported_keywords", "missing_keywords", "format_warnings",
              "items", "list"}

\* re.sub of '"key":\s*$' and '"key":\s*}' for the keys given: the value
\* fill is put after the colon
RECURSIVE FillFrom(_, _, _, _)
FillFrom(t, i, keys, fill) ==
    IF i > Len(t) THEN <<>>
    ELSE IF /\ t[i] = P(":")
            /\ i > 1
            /\ t[i - 1].k = "str"
            /\ t[i - 1].v \in keys
            /\ (i = Len(t) \/ t[i + 1] = P("}"))
    THEN <<t[i]>> \o fill \o FillFrom(t, i + 1, keys, fill)
    ELSE <<t[i]>> \o FillFrom(t, i + 1, keys, fill)

\* lines 401-422: [] for the array keys, then null for any other key
FillMissing(t) ==
    LET arrays == FillFrom(t, 1, ArrayKeys, <<P("["), P("]")>>)
        keys == {arrays[i].v : i \in {j \in 1..Len(arrays) : arrays[j].k = "str"}} \ {""}
    IN FillFrom(arrays, 1, keys, <<Lit("null")>>)

\* re.sub(r',\s*\]', ']') and re.sub(r',\s*}', '}')
RECURSIVE DropCommasBefore(_, _)
DropCommasBefore(t, c) ==
    IF t = <<>> THEN <<>>
    ELSE IF Len(t) > 1 /\ t[1] = P(",") /\ t[2] = P(c)
    THEN DropCommasBefore(Tail(t), c)
    ELSE <<Head(t)>> \o DropCommasBefore(Tail(t), c)

RemoveTrailingCommas(t) == DropCommasBefore(DropCommasBefore(t, "]"), "}")

\* re.sub(r',\s*$', '')
StripTrailingComma(t) ==
    IF t # <<>> /\ t[Len(t)] = P(",") THEN SubSeq(t, 1, Len(t) - 1) ELSE t

Repeat(tok, n) == [i \in 1..n |-> tok]

\* (the braces closed before the brackets)
AppendClosersBracesFirst(t, open_brackets, open_braces) ==
    LET braces == IF open_braces > 0
                  THEN StripTrailingComma(t) \o Repeat(P("}"), open_braces) ELSE t
    IN IF open_brackets > 0
       THEN StripTrailingComma(braces) \o Repeat(P("]"), open_brackets) ELSE braces

\* lines 429-439: "close any open structures in reverse order (brackets
\* first, then braces)"
AppendClosers(t, open_brackets, open_braces) ==
    LET brackets == IF open_brackets > 0
                    THEN StripTrailingComma(t) \o Repeat(P("]"), open_brackets) ELSE t
    IN IF open_braces > 0
       THEN StripTrailingComma(brackets) \o Repeat(P("}"), open_braces) ELSE brackets

\* _repair_json
repair_json(json_text) ==
    LET open_braces == Count(json_text, "{") - Count(json_text, "}")
        open_brackets == Count(json_text, "[") - Count(json_text, "]")
        filled == FillMissing(CloseString(json_text))
        closed == AppendClosers(RemoveTrailingCommas(filled), open_brackets, open_braces)
    IN RemoveTrailingCommas(closed)

\* json.loads: None when the text does not parse, else Some(value); a value
\* is [str |-> s], [lit |-> s], [list |-> <<values>>] or
\* [object |-> <<<<key, value>>, ...>>]
ParseFailed == [ok |-> FALSE, value |-> [lit |-> "none"], next |-> 0]
Parsed(v, next) == [ok |-> TRUE, value |-> v, next |-> next]

RECURSIVE ParseValue(_, _), ParseElements(_, _, _), ParseMembers(_, _, _)
ParseValue(t, i) ==
    IF i > Len(t) THEN ParseFailed
    ELSE IF t[i].k = "str" THEN Parsed([str |-> t[i].v], i + 1)
    ELSE IF t[i].k = "lit" THEN Parsed([lit |-> t[i].v], i + 1)
    ELSE IF t[i] = P("[")
    THEN IF i < Len(t) /\ t[i + 1] = P("]") THEN Parsed([list |-> <<>>], i + 2)
         ELSE ParseElements(t, i + 1, <<>>)
    ELSE IF t[i] = P("{")
    THEN IF i < Len(t) /\ t[i + 1] = P("}") THEN Parsed([object |-> <<>>], i + 2)
         ELSE ParseMembers(t, i + 1, <<>>)
    ELSE ParseFailed

ParseElements(t, i, acc) ==
    LET v == ParseValue(t, i)
    IN IF ~v.ok \/ v.next > Len(t) THEN ParseFailed
       ELSE IF t[v.next] = P(",") THEN ParseElements(t, v.next + 1, Append(acc, v.value))
       ELSE IF t[v.next] = P("]") THEN Parsed([list |-> Append(acc, v.value)], v.next + 1)
       ELSE ParseFailed

ParseMembers(t, i, acc) ==
    IF i + 1 > Len(t) \/ t[i].k # "str" \/ t[i + 1] # P(":") THEN ParseFailed
    ELSE LET v == ParseValue(t, i + 2)
             member == <<t[i].v, v.value>>
         IN IF ~v.ok \/ v.next > Len(t) THEN ParseFailed
            ELSE IF t[v.next] = P(",") THEN ParseMembers(t, v.next + 1, Append(acc, member))
            ELSE IF t[v.next] = P("}")
            THEN Parsed([object |-> Append(acc, member)], v.next + 1)
            ELSE ParseFailed

json_loads(t) ==
    LET v == ParseValue(t, 1)
    IN IF v.ok /\ v.next = Len(t) + 1 THEN Some(v.value) ELSE None

\* well-formed documents nested up to depth d: a string, a number, a list
\* of one or two elements, an object with the key "items" or "name"
RECURSIVE Documents(_)
Documents(d) ==
    IF d = 0 THEN {<<Str("a")>>, <<Lit("1")>>}
    ELSE Documents(d - 1)
         \cup {<<P("[")>> \o v \o <<P("]")>> : v \in Documents(d - 1)}
         \cup {<<P("[")>> \o v \o <<P(","), Str("b"), P("]")>> : v \in Documents(d - 1)}
         \cup {<<P("{"), Str(key), P(":")>> \o v \o <<P("}")>>
                    : v \in Documents(d - 1), key \in {"items", "name"}}

\* what a response cut off by the token limit looks like: a prefix of a
\* document, its last string possibly cut before the closing quote
RepairInputs ==
    LET prefixes == UNION {{SubSeq(doc, 1, n) : n \in 1..Len(doc)}
                                : doc \in Documents(MaxDepth)}
    IN prefixes \cup {[t EXCEPT ![Len(t)] = Cut(@.v)] :
                        t \in {u \in prefixes : u[Len(u)].k = "str"}}

\* a text is handed to _repair_json, which answers
Repair ==
    /\ pc = "idle"
    /\ ~probe.done
    /\ \E json_text \in RepairInputs :
        probe' = [done |-> TRUE, json_text |-> json_text,
                  repaired |-> repair_json(json_text)]
    /\ UNCHANGED <<cachevars, agents, pc, state, bb, handler, disable_cache, config, files,
                   cache, now, save, runs, outcome, cause, stats, origin>>

NextRepair ==
    \/ Repair
    \/ Forget

SpecRepair == InitTransitions /\ [][NextRepair]_vars

\* the guards of the three transitions out of AUDITING that hold on b
TrueGuards(b) == {c \in {"passed", "retry", "exhausted"} : Condition(c, b)}

Present(b) == ~IsNone(b.audit_report)

\* C1: without a handler, the transition chosen out of AUDITING is COMPLETE
\* iff the audit report is present and passed, REVISION iff it is present,
\* not passed and retry_count < max_retries, FAILED iff it is present, not
\* passed and retry_count >= max_retries; with a report present exactly one
\* of the three guards is true
C1_AuditingTransition ==
    (probe.done /\ probe.current = "AUDITING") =>
        LET b == probe.b
            failed == Present(b) /\ ~b.audit_report[1].passed
        IN /\ probe.next = Some("COMPLETE")
                <=> (Present(b) /\ b.audit_report[1].passed)
           /\ probe.next = Some("REVISION")
                <=> (failed /\ b.retry_count < b.max_retries)
           /\ probe.next = Some("FAILED")
                <=> (failed /\ b.retry_count >= b.max_retries)
           /\ Present(b) => Cardinality(TrueGuards(b)) = 1

\* a failed audit with the retries just used up has been looked up
C1_Witness ==
    /\ probe.done
    /\ probe.current = "AUDITING"
    /\ Present(probe.b)
    /\ ~probe.b.audit_report[1].passed
    /\ probe.b.retry_count = probe.b.max_retries
    /\ probe.b.max_retries > 0
    /\ probe.next = Some("FAILED")

(***************************************************************************)
(* The revision loop                                                       *)
(***************************************************************************)
Passed(b) == Present(b) /\ b.audit_report[1].passed

\* the loop of run() has been left
LoopLeft == pc = "finish" /\ state \in {"COMPLETE", "FAILED"}

\* C2: without a handler, a run in which each stage call returns or raises
\* eventually leaves the loop in COMPLETE or FAILED; it leaves it in COMPLETE
\* only with a passed audit, so a run whose audits all fail ends in FAILED
C2_Terminates ==
    /\ (pc = "exec" /\ ~handler) ~> LoopLeft
    /\ []((~handler /\ pc = "finish" /\ state = "COMPLETE") => Passed(bb))

\* every audit failed and the default number of retries was used up
C2_Witness ==
    /\ ~handler
    /\ LoopLeft
    /\ state = "FAILED"
    /\ cause = "exhausted"
    /\ bb.max_retries = DefaultMaxRetries
    /\ stats.executed["REVISION"] = DefaultMaxRetries
    /\ stats.executed["AUDITING"] = DefaultMaxRetries + 1

\* C3: without a handler the retry counter counts the revisions, REVISION
\* is entered only while retry_count < max_retries, the run goes to FAILED
\* at the first failed audit with retry_count = max_retries, REVISION runs
\* at most max_retries times and WRITING and AUDITING at most
\* max_retries + 1 times
C3_RetryPolicy ==
    (~handler /\ pc # "idle") =>
        /\ bb.retry_count = origin.loaded.retry_count + stats.executed["REVISION"]
        /\ (pc = "exec" /\ state = "REVISION") => bb.retry_count < bb.max_retries
        /\ (pc = "finish" /\ cause = "exhausted") =>
                (~Passed(bb) /\ bb.retry_count = bb.max_retries)
        /\ stats.executed["REVISION"] <= bb.max_retries
        /\ stats.executed["WRITING"] <= bb.max_retries + 1
        /\ stats.executed["AUDITING"] <= bb.max_retries + 1

(***************************************************************************)
(* Interruption and resume                                                 *)
(***************************************************************************)
NothingExecuted == \A s \in Stages : stats.executed[s] = 0

\* the run was resumed, without an override, from the checkpoint written
\* after EVIDENCE_MAPPING had completed
ResumedAfterMapping ==
    /\ origin.kind = "resume"
    /\ origin.override = None
    /\ origin.stage = "EVIDENCE_MAPPING"
    /\ origin.loaded.current_step = "evidence_mapping_complete"

\* C4: a run resumed from the checkpoint written after evidence mapping
\* starts from the loaded state at WRITING and calls neither the JD-analysis
\* nor the evidence-mapping collaborator again
C4_ResumeAfterMapping ==
    ResumedAfterMapping =>
        /\ (pc = "exec" /\ NothingExecuted) =>
                (state = "WRITING" /\ Fields(bb) = origin.loaded)
        /\ stats.llm["JD_ANALYSIS"] = 0
        /\ stats.llm["EVIDENCE_MAPPING"] = 0

\* the stages after JD analysis
LaterStages == {"EVIDENCE_MAPPING", "WRITING", "AUDITING", "REVISION"}

\* the outputs computed from the job description
Cleared(b) ==
    /\ b.role_profile = None
    /\ b.requirements = <<>>
    /\ b.evidence_map = <<>>
    /\ b.gap_resolutions = <<>>
    /\ b.selected_evidence_ids = <<>>
    /\ b.resume_draft = None
    /\ b.claim_index = <<>>
    /\ b.ats_report = None
    /\ b.audit_report = None

ResumedWithOverride ==
    /\ origin.kind = "resume"
    /\ origin.override # None
    /\ origin.stage \in LaterStages

\* C5: on a resume with a job_description_override from a checkpoint of a
\* stage after JD analysis, before any stage executes the outputs computed
\* from the old job description are cleared and the run stands at
\* JD_ANALYSIS with the new job description
C5_OverrideClears ==
    (ResumedWithOverride /\ NothingExecuted) =>
        /\ pc = "exec"
        /\ state = "JD_ANALYSIS"
        /\ bb.job_description = origin.override[1]
        /\ Cleared(bb)

\* an override on a checkpoint that held an audit report
C5_Witness ==
    /\ ResumedWithOverride
    /\ NothingExecuted
    /\ origin.stage = "AUDITING"
    /\ origin.loaded.audit_report # None
    /\ origin.loaded.job_description # bb.job_description
    /\ bb.audit_report = None

Latest == LatestName(bb.target_title)

LatestContent(fs) == IF Latest \in DOMAIN fs THEN Some(fs[Latest]) ELSE None

\* C7: after a crash inside _save_checkpoint the latest file, if there is
\* one, holds a complete checkpoint
C7_LatestNeverPartial ==
    (outcome.status = "crashed"
        /\ outcome.pc \in {"save_open", "save_write", "copy_open", "copy_write"}) =>
        \A title \in Titles :
            find_latest_checkpoint(files, title) # None
                => IsComplete(files[LatestName(title)])

\* C8: inside _save_checkpoint the latest file is untouched until the
\* timestamped file is written in full, and when the call returns the latest
\* file has the content of the checkpoint file just written
C8_LatestFollows ==
    [][/\ (pc \in {"save_open", "save_write"})
            => LatestContent(files') = LatestContent(files)
       /\ (pc = "copy_open" /\ LatestContent(files') # LatestContent(files))
            => (save.file \in DOMAIN files /\ IsComplete(files[save.file]))
       /\ (pc = "copy_write" /\ pc' \in {"next", "finish"})
            => /\ LatestContent(files') = Some(files'[save.file])
               /\ IsComplete(files'[save.file])
               /\ files'[save.file] = save.data]_vars

\* the fourth checkpoint of a run has replaced the third in the latest file
C8_Witness ==
    /\ pc = "next"
    /\ state = "AUDITING"
    /\ stats.saved >= 4
    /\ Latest \in DOMAIN files
    /\ IsComplete(files[Latest])
    /\ files[Latest][1]["_checkpoint_metadata"].state = "AUDITING"
    /\ files[Latest] = files[CheckpointName(bb.target_title, state, now)]

C10_StageException ==
    /\ [][(cause # "exception" /\ cause' = "exception")
            => /\ bb'.retry_count = bb.retry_count
               /\ state' = state
               /\ pc' = "save_open"
               /\ stats'.error_saves = 1]_vars
    /\ [][(cause = "exception" /\ pc' # "idle")
            => /\ stats'.executed = stats.executed
               /\ stats'.error_saves = stats.error_saves
               /\ bb'.retry_count = bb.retry_count
               /\ state' \in {state, "FAILED"}]_vars
    /\ [](cause = "exception" => pc \notin {"next", "exec"})
    /\ []((cause = "exception" /\ pc = "finish") => state = "FAILED")
    /\ [][(cause = "exception" /\ pc = "finish" /\ pc' = "idle")
            => outcome'.status \in {"failed", "crashed"}]_vars

\* the drafting stage raised, the save in the except branch failed, and the
\* loop was left in FAILED all the same
C10_Witness ==
    /\ cause = "exception"
    /\ pc = "finish"
    /\ state = "FAILED"
    /\ stats.executed["WRITING"] = 1
    /\ stats.error_saves = 1
    /\ stats.saved = 3
    /\ files[Latest][1]["_checkpoint_metadata"].state = "EVIDENCE_MAPPING"

(***************************************************************************)
(* C11  Whenever a run ends in FAILED, the error delivered to the caller   *)
(* carries the originating cause of the failure and identifies the last    *)
(* successfully completed stage.                                           *)
(***************************************************************************)
AboutToRaise == pc = "finish" /\ state = "FAILED"

C11_FailureDiagnosis ==
    AboutToRaise =>
        LET e == OrchestrationError(bb)
        IN /\ e.cause = Some(cause)
           /\ \E s \in Stages : s = stats.completed /\ e.message[2] = StepName(s)

(***************************************************************************)
(* C12  After each stage executes, the resulting state is validated before *)
(* any transition is computed: if claim_index or selected_evidence_ids     *)
(* references an evidence card id that is not in evidence_cards, the run   *)
(* goes to FAILED, the invalid state is not written to a checkpoint, and   *)
(* no further stage is executed.                                           *)
(***************************************************************************)
Dangling(b) ==
    \/ ClaimErrors(b.claim_index, Range(b.evidence_cards)) # <<>>
    \/ SelectedErrors(b) # <<>>

C12_InvalidStateFails ==
    /\ [](pc \in {"next", "save_open", "save_write", "copy_open", "copy_write"}
            /\ save.mode # "error" => validate_state(bb))
    /\ [](Dangling(bb) => pc = "finish" /\ state = "FAILED")
    /\ [](\A n \in DOMAIN files :
            IsComplete(files[n]) => ~Dangling(LoadCheckpoint(files[n])))
    /\ [][Dangling(bb) =>
            \A s \in Stages : stats'.executed[s] <= stats.executed[s]]_vars

C12_Witness ==
    /\ Dangling(bb)
    /\ cause = "validation"
    /\ stats.executed["WRITING"] = 1
    /\ stats.completed = "EVIDENCE_MAPPING"

(***************************************************************************)
(* C13  For every state in which every identifier reference made by a      *)
(* stage output (claim_index, selected_evidence_ids, evidence_map,         *)
(* gap_resolutions) resolves to an existing item, validate_state returns   *)
(* valid; making any single one of those references dangle makes           *)
(* validate_state return invalid with an error that names the dangling     *)
(* identifier.                                                             *)
(***************************************************************************)
\* the references of a blackboard, each with the field holding it
References(b) ==
    LET cards(field, seqs) ==
            {[field |-> field, kind |-> "card", id |-> id]
                : id \in UNION {Range(ids) : ids \in seqs}}
    IN cards("claim_index", {c.evidence_card_ids : c \in Range(b.claim_index)})
       \cup cards("selected_evidence_ids", {b.selected_evidence_ids})
       \cup cards("evidence_map", {m.evidence_card_ids : m \in Range(b.evidence_map)})
       \cup cards("gap_resolutions",
                  {g.adjacent_evidence_ids : g \in Range(b.gap_resolutions)})
       \cup {[field |-> "evidence_map", kind |-> "requirement", id |-> m.requirement_id]
                : m \in Range(b.evidence_map)}
       \cup {[field |-> "gap_resolutions", kind |-> "requirement", id |-> g.gap_id]
                : g \in Range(b.gap_resolutions)}

Resolves(b, ref) ==
    IF ref.kind = "card" THEN ref.id \in Range(b.evidence_cards)
    ELSE ref.id \in {r.id : r \in Range(b.requirements)}

DanglingReferences(b) == {ref \in References(b) : ~Resolves(b, ref)}

NamedIds(errors) == UNION {e.ids : e \in Range(errors)}

C13_ValidateState ==
    probe.done =>
        /\ DanglingReferences(probe.b) = {} => probe.is_valid
        /\ Cardinality(DanglingReferences(probe.b)) = 1 =>
                /\ ~probe.is_valid
                /\ \A ref \in DanglingReferences(probe.b) :
                        ref.id \in NamedIds(probe.errors)

(***************************************************************************)
(* C14  For every agent name and input tuple, LLMResultCache.get(name,     *)
(* *inputs) issued after set(name, payload, *inputs) returns payload,      *)
(* provided no clear, delete or expiry of that entry happened in between,  *)
(* and whatever set calls for other names or other input tuples were       *)
(* interleaved.                                                            *)
(***************************************************************************)
GetAnswered == probe.done /\ probe.op = "get" /\ ~disable_cache
Asked == <<probe.agent_name[1], probe.args[1]>>
AskedKey == compute_hash(sha256, probe.args[1])
AskedFile == get_cache_path(AskedKey, probe.agent_name[1])

C14_GetAfterSet ==
    GetAnswered => (stored[Asked] # None => probe.result = stored[Asked])

(***************************************************************************)
(* C15  Two cache operations for the same stage whose input tuples differ  *)
(* only in the order of the elements of an unordered list compute the same *)
(* fingerprint, so a get with one ordering returns the payload stored by a *)
(* set with the other ordering.                                            *)
(***************************************************************************)
IsPermutation(s, t) ==
    /\ Len(s) = Len(t)
    /\ \E f \in [1..Len(s) -> 1..Len(s)] :
        /\ \A i, j \in 1..Len(s) : f[i] = f[j] => i = j
        /\ \A i \in 1..Len(s) : t[i] = s[f[i]]

SameUpToOrder(a1, a2) ==
    /\ Len(a1) = Len(a2)
    /\ \A i \in 1..Len(a1) :
        IF "list" \in DOMAIN a1[i]
        THEN "list" \in DOMAIN a2[i] /\ IsPermutation(a1[i].list, a2[i].list)
        ELSE a1[i] = a2[i]

C15_OrderIndependent ==
    GetAnswered =>
        \A other \in CacheInputs :
            (/\ SameUpToOrder(other, probe.args[1])
             /\ stored[<<probe.agent_name[1], other>>] # None
             /\ \A a \in CacheInputs :
                    a # other => stored[<<probe.agent_name[1], a>>] = None)
            => /\ compute_hash(sha256, other) = AskedKey
               /\ probe.result = stored[<<probe.agent_name[1], other>>]

(***************************************************************************)
(* C16  FileCacheBackend.get(key, namespace) returns either None or the    *)
(* value most recently stored under exactly that full key in that          *)
(* namespace; it never returns a value that was stored under a different   *)
(* key sharing the same 16-character file-name prefix.                     *)
(***************************************************************************)
C16_ExactKey ==
    GetAnswered =>
        \/ probe.result = None
        \/ /\ stored[Asked] # None
           /\ probe.result = stored[Asked]
           /\ cache_files[AskedFile].hash = AskedKey

C16_Witness ==
    /\ GetAnswered
    /\ AskedFile \in DOMAIN cache_files
    /\ cache_files[AskedFile].hash # AskedKey
    /\ stored[Asked] # None
    /\ cache_files[AskedFile].result # stored[Asked][1]
    /\ probe.result = None

(***************************************************************************)
(* C17  When the orchestrator is created with disable_cache=True, the      *)
(* cache attached to the run uses the no-op backend: after any sequence of *)
(* set calls every get returns None and nothing is stored, so every stage  *)
(* execution of the run invokes its collaborator and never restores a      *)
(* result from cache.                                                      *)
(***************************************************************************)
AgentStages == {"JD_ANALYSIS", "EVIDENCE_MAPPING", "WRITING", "AUDITING"}

\* a step in which the current stage was executed and returned
StageReturned ==
    /\ pc = "exec"
    /\ stats'.executed[state] = stats.executed[state] + 1
    /\ cause' # "exception"

C17_DisabledCache ==
    /\ [](disable_cache => cache = EmptyCache)
    /\ [][disable_cache /\ state \in AgentStages /\ StageReturned =>
            stats'.llm[state] = stats.llm[state] + 1]_vars

\* the writer ran twice on the same key and called its collaborator twice
C17_Witness ==
    /\ disable_cache
    /\ stats.executed["WRITING"] = 2
    /\ stats.llm["WRITING"] = 2
    /\ stats.completed = "WRITING"
    /\ stats.executed["JD_ANALYSIS"] = 1 /\ stats.llm["JD_ANALYSIS"] = 1

(***************************************************************************)
(* C18  clear(agent_name) removes every cache entry of that agent and      *)
(* leaves the entries of every other agent unchanged; clear(None) removes  *)
(* all entries; after a clear, get for a removed entry returns None and    *)
(* get for a retained entry still returns its payload.                     *)
(***************************************************************************)
\* what get(agent_name, *args) would return on directory dir
WouldGet(dir, agent_name, args) ==
    BackendGet(disable_cache, dir, compute_hash(sha256, args), agent_name, now).value

EntriesOf(dir, agent_name) == {f \in DOMAIN dir : f.namespace = agent_name}

C18_ClearFrame ==
    [][probe'.done /\ probe'.op = "clear" =>
        \A n \in AgentNames :
            IF probe'.agent_name = None \/ probe'.agent_name = Some(n)
            THEN /\ EntriesOf(cache_files', n) = {}
                 /\ \A args \in CacheInputs : WouldGet(cache_files', n, args) = None
            ELSE /\ EntriesOf(cache_files', n) = EntriesOf(cache_files, n)
                 /\ \A f \in EntriesOf(cache_files, n) : cache_files'[f] = cache_files[f]
                 /\ \A args \in CacheInputs :
                        WouldGet(cache_files', n, args) = WouldGet(cache_files, n, args)
    ]_vars

\* one agent cleared while it and another agent had entries
C18_Witness ==
    /\ probe.done /\ probe.op = "clear"
    /\ probe.agent_name = Some("jd_analyst")
    /\ \E args \in CacheInputs :
        /\ stored[<<"resume_writer", args>>] # None
        /\ WouldGet(cache_files, "resume_writer", args) = stored[<<"resume_writer", args>>]
    /\ ~disable_cache

(***************************************************************************)
(* C19  With an audit_failure_handler supplied, at AUDITING with a failed  *)
(* audit the handler is invoked before any default transition is evaluated *)
(* and its decision determines the next state: 'proceed' marks the audit   *)
(* passed and goes to COMPLETE; 'add_evidence' with non-empty text appends *)
(* one evidence card, clears evidence_map, gap_resolutions,                *)
(* selected_evidence_ids, resume_draft, claim_index, ats_report and        *)
(* audit_report, and goes to EVIDENCE_MAPPING; 'cancel', an unknown        *)
(* action, or an add-evidence action without text goes to FAILED.  The     *)
(* handler is never invoked when the audit passed or at any stage other    *)
(* than AUDITING.                                                          *)
(***************************************************************************)
FailedAuditAtAuditing ==
    /\ state = "AUDITING"
    /\ bb.audit_report # None
    /\ ~bb.audit_report[1].passed

\* _get_next_state is called and returns
TransitionComputed == pc = "next" /\ pc' # "idle"

HandlerInvoked == stats'.asked = stats.asked + 1

OneCardAppended ==
    /\ Len(bb'.evidence_cards) = Len(bb.evidence_cards) + 1
    /\ SubSeq(bb'.evidence_cards, 1, Len(bb.evidence_cards)) = bb.evidence_cards

DecisionFollowed(d) ==
    /\ d.action = "proceed" =>
            state' = "COMPLETE" /\ bb'.audit_report # None /\ bb'.audit_report[1].passed
    /\ d.action = "add_evidence" /\ d.evidence_text # "" =>
            /\ state' = "EVIDENCE_MAPPING"
            /\ OneCardAppended
            /\ bb'.evidence_map = <<>>
            /\ bb'.gap_resolutions = <<>>
            /\ bb'.selected_evidence_ids = <<>>
            /\ bb'.resume_draft = None
            /\ bb'.claim_index = <<>>
            /\ bb'.ats_report = None
            /\ bb'.audit_report = None
    /\ \/ d.action \in {"cancel", "other"}
       \/ d.action \in {"add_evidence", "add_evidence_and_proceed"}
            /\ d.evidence_text = ""
       => state' = "FAILED"

C19_HandlerDecides ==
    /\ [][TransitionComputed /\ handler /\ FailedAuditAtAuditing =>
            HandlerInvoked /\ DecisionFollowed(stats'.decision[1])]_vars
    /\ [][HandlerInvoked =>
            pc = "next" /\ handler /\ FailedAuditAtAuditing]_vars

\* evidence was added and the run is back at EVIDENCE_MAPPING
C19_Witness ==
    /\ stats.asked = 1
    /\ stats.decision = Some([action |-> "add_evidence", evidence_text |-> "text"])
    /\ state = "EVIDENCE_MAPPING"
    /\ pc = "exec"
    /\ Len(bb.evidence_cards) > 1
    /\ bb.audit_report = None

(***************************************************************************)
(* C20  When the audit_failure_handler cancels, the AUDITING stage has     *)
(* already completed and its checkpoint has already been persisted before  *)
(* the run transitions to FAILED; the latest checkpoint is retained, and a *)
(* later run resumed from it starts from that checkpoint's stage with the  *)
(* state that was saved.                                                   *)
(***************************************************************************)
\* the handler has sent the run to FAILED and run() is about to raise
Cancelled == pc = "finish" /\ state = "FAILED" /\ cause = "cancel"

\* the run before this one ended with the handler's cancel
AfterCancel == pc = "idle" /\ outcome.status = "failed" /\ outcome.cause = "cancel"

AuditingCheckpoint(fs, name) ==
    /\ name \in DOMAIN fs
    /\ IsComplete(fs[name])
    /\ fs[name][1]["_checkpoint_metadata"].state = "AUDITING"

C20_CancelKeepsCheckpoint ==
    /\ [](Cancelled =>
            /\ stats.completed = "AUDITING"
            /\ stats.saved > 0
            /\ AuditingCheckpoint(files, LatestName(bb.target_title))
            /\ Fields(LoadCheckpoint(files[LatestName(bb.target_title)])) = Fields(bb))
    /\ [][Cancelled /\ outcome'.status = "failed" => files' = files]_vars
    /\ [](AfterCancel => \E title \in Titles : AuditingCheckpoint(files, LatestName(title)))
    /\ [][AfterCancel /\ pc' # "idle" /\ origin'.override = None =>
            /\ origin'.kind = "resume"
            /\ AuditingCheckpoint(files, origin'.file)
            /\ origin'.file = LatestName(bb'.target_title)
            /\ state' = "AUDITING"
            /\ pc' = "exec"
            /\ Fields(bb') = Fields(LoadCheckpoint(files[origin'.file]))
            /\ bb'.audit_report # None /\ ~bb'.audit_report[1].passed]_vars

\* a run was cancelled after evidence had been added once; its checkpoint is
\* there and another run may follow
C20_Witness ==
    /\ AfterCancel
    /\ outcome.saved > 4
    /\ runs < MaxRuns
    /\ \E title \in Titles : AuditingCheckpoint(files, LatestName(title))

StageOrder == <<"INIT", "PREPROCESSING", "JD_ANALYSIS", "EVIDENCE_MAPPING",
                "WRITING", "AUDITING">>

\* a fresh run in which so far no stage has raised or left an invalid
\* blackboard, no checkpoint write has failed and no audit has failed
Smooth ==
    /\ origin.kind = "fresh"
    /\ cause \notin {"exception", "validation", "save_failed"}
    /\ stats.first_audit # "failed"

C22_HappyPath ==
    /\ [](Smooth =>
            /\ stats.executed["REVISION"] = 0
            /\ state # "REVISION"
            /\ \A i \in 1..Len(StageOrder) :
                /\ stats.executed[StageOrder[i]] <= 1
                /\ stats.executed[StageOrder[i]] = 1 =>
                      \A j \in 1..(i - 1) : stats.executed[StageOrder[j]] = 1
            /\ pc = "exec" => \A i \in 1..Len(StageOrder) :
                                state = StageOrder[i] =>
                                    \A j \in 1..(i - 1) : stats.executed[StageOrder[j]] = 1
            /\ pc = "finish" =>
                /\ state = "COMPLETE"
                /\ stats.first_audit = "passed"
                /\ \A i \in 1..Len(StageOrder) : stats.executed[StageOrder[i]] = 1)
    /\ [][(Smooth /\ pc = "finish" /\ outcome'.status # "crashed") =>
            (outcome'.status = "complete" /\ outcome'.step = "complete")]_vars

\* a run without a handler has returned after five checkpoints, none of
\* them in an except branch
C22_Witness ==
    /\ ~handler
    /\ pc = "idle"
    /\ outcome.status = "complete"
    /\ outcome.step = "complete"
    /\ outcome.cause = "none"
    /\ outcome.saved = Len(StageOrder) - 1

(***************************************************************************)
(* C23  For runs with different target titles working on the same outputs  *)
(* directory, no run's checkpoint write or completion cleanup overwrites   *)
(* or deletes another run's latest checkpoint, and                         *)
(* _find_latest_checkpoint(title) never returns a checkpoint written by a  *)
(* run with a different title.                                             *)
(***************************************************************************)
\* the title of the run that wrote the checkpoint
WrittenBy(content) == content[1].target_title

LatestOf(fs, title) == find_latest_checkpoint(fs, title)

C23_DisjointNamespaces ==
    /\ [](\A title \in TitlePool :
            LatestOf(files, title) # None =>
                WrittenBy(files[LatestOf(files, title)[1]]) = title)
    /\ [][\A other \in TitlePool \ {probe'.title} :
            LET name == LatestName(other)
            IN (name \in DOMAIN files /\ WrittenBy(files[name]) = other) =>
                    (name \in DOMAIN files' /\ files'[name] = files[name])]_vars

(***************************************************************************)
(* C24  If no transition guard matches after a stage (AUDITING finishes    *)
(* with no audit report, or the current state has no outgoing transition), *)
(* _get_next_state returns None and the run ends in FAILED by raising      *)
(* OrchestrationError; it neither completes nor continues looping.         *)
(***************************************************************************)
\* the transition is about to be computed and no guard matches
NoGuardMatches ==
    /\ pc = "next"
    /\ ~HandlerApplies(state, bb, handler)
    /\ \A i \in 1..Len(TRANSITIONS) :
            TRANSITIONS[i].from_state = state => ~Condition(TRANSITIONS[i].condition, bb)

C24_NoTransitionFails ==
    /\ [](\A current \in {"COMPLETE", "FAILED"}, b \in ProbeBlackboards :
            NormalTransition(current, b) = None)
    /\ [](\A b \in ProbeBlackboards :
            IsNone(b.audit_report) => NormalTransition("AUDITING", b) = None)
    /\ [](NoGuardMatches => NormalTransition(state, bb) = None)
    /\ [][(NoGuardMatches /\ pc' # "idle") =>
            /\ pc' = "finish"
            /\ state' = "FAILED"
            /\ stats' = stats
            /\ files' = files]_vars
    /\ [][(pc = "finish" /\ cause = "no_transition" /\ outcome'.status # "crashed") =>
            /\ state = "FAILED"
            /\ outcome'.status = "failed"
            /\ pc' = "idle"]_vars

\* a run has ended with OrchestrationError after an audit that left no report
C24_Witness ==
    /\ pc = "idle"
    /\ outcome.status = "failed"
    /\ outcome.cause = "no_transition"
    /\ outcome.state = "FAILED"
    /\ outcome.saved = Len(StageOrder) - 1

(***************************************************************************)
(* C25  After every stage other than INIT that executes successfully and   *)
(* passes validation, a checkpoint holding the full shared state and that  *)
(* stage's name is written before the next stage's execution begins.       *)
(***************************************************************************)
\* a file of the directory is a checkpoint of the stage, written in full
\* for this run's title, and holds the blackboard b
CheckpointOf(fs, f, stage, b) ==
    /\ f.stem = SafeTitle(b.target_title)
    /\ f.kind = StepName(stage)
    /\ IsComplete(fs[f])
    /\ fs[f][1]["_checkpoint_metadata"].state = stage
    /\ Fields(LoadCheckpoint(fs[f])) = Fields(b)

C25_CheckpointBeforeNextStage ==
    /\ [][(pc = "exec" /\ pc' # "idle" /\ stats'.completed # stats.completed
                /\ state # "INIT") =>
            (pc' = "save_open" /\ save'.mode = "ok" /\ stats'.completed = state)]_vars
    /\ []((pc = "next" /\ state # "INIT") =>
            /\ stats.completed = state
            /\ \E f \in DOMAIN files : CheckpointOf(files, f, state, bb))
    /\ [][(pc' = "exec" /\ pc # "exec" /\ pc # "idle") =>
            (pc = "next" /\ files' = files)]_vars
    /\ []((pc = "exec" /\ stats.completed \notin {"none", "INIT"}) =>
            \E f \in DOMAIN files :
                /\ f.kind = StepName(stats.completed)
                /\ IsComplete(files[f])
                /\ files[f][1]["_checkpoint_metadata"].state = stats.completed)

\* WRITING is about to execute and the checkpoint of EVIDENCE_MAPPING holds
\* the blackboard it starts from
C25_Witness ==
    /\ pc = "exec"
    /\ state = "WRITING"
    /\ stats.executed["WRITING"] = 0
    /\ stats.completed = "EVIDENCE_MAPPING"
    /\ \E f \in DOMAIN files : CheckpointOf(files, f, "EVIDENCE_MAPPING", bb)

(***************************************************************************)
(* C26  After the audit_failure_handler returns add_evidence with          *)
(* non-empty text, the injected evidence card is not lost: it is in        *)
(* evidence_cards when the evidence-mapping collaborator is invoked again  *)
(* and stays in evidence_cards in every later state of the run.            *)
(***************************************************************************)
\* the ids _add_user_evidence can have given out so far
UserCardIds == {UserCardId(t) : t \in 0..now}

C26_InjectedCardKept ==
    (pc # "idle" /\ stats.adds > 0) =>
        Range(bb.evidence_cards) \cap UserCardIds # {}

(***************************************************************************)
(* C27  Applied to the raw text {"items": ["a", "b" (an unterminated list  *)
(* inside an open object), the repair function returns text that parses    *)
(* as JSON to an object whose items value is the list ["a", "b"].          *)
(***************************************************************************)
UnterminatedList ==
    <<P("{"), Str("items"), P(":"), P("["), Str("a"), P(","), Str("b")>>

C27_RepairsUnterminatedList ==
    (probe.done /\ probe.json_text = UnterminatedList) =>
        json_loads(probe.repaired)
            = Some([object |-> <<<<"items", [list |-> <<[str |-> "a"], [str |-> "b"]>>]>>>>])

\* the text has been repaired by appending "]" and then "}"
C27_Witness ==
    /\ probe.done
    /\ probe.json_text = UnterminatedList
    /\ probe.repaired = UnterminatedList \o <<P("]"), P("}")>>

(***************************************************************************)
(* C28  For every input that is a truncated prefix of well-formed nested   *)
(* objects and lists, _repair_json appends exactly as many closing         *)
(* brackets and closing braces as were open in the input, so that the      *)
(* delimiters of the result are balanced: every opener is matched by a     *)
(* closer of the same kind and the pairs are properly nested.              *)
(***************************************************************************)
Closer(c) == IF c = "[" THEN "]" ELSE "}"

\* the delimiters of t from position i on match the stack of openers
RECURSIVE BalancedFrom(_, _, _)
BalancedFrom(t, i, stack) ==
    IF i > Len(t) THEN stack = <<>>
    ELSE IF t[i] \in {P("["), P("{")} THEN BalancedFrom(t, i + 1, <<t[i].v>> \o stack)
    ELSE IF t[i] \in {P("]"), P("}")}
    THEN /\ stack # <<>>
         /\ Closer(Head(stack)) = t[i].v
         /\ BalancedFrom(t, i + 1, Tail(stack))
    ELSE BalancedFrom(t, i + 1, stack)

Balanced(t) == BalancedFrom(t, 1, <<>>)

\* openers of a kind net of closers
Open(t, c) == Count(t, c) - Count(t, Closer(c))

\* the same with the nesting left out: what was open is closed, kind by kind
ClosersCounted ==
    probe.done =>
        /\ Open(probe.repaired, "[") = 0
        /\ Open(probe.repaired, "{") = 0

C28_DelimitersBalanced ==
    probe.done =>
        /\ Open(probe.repaired, "[") = 0
        /\ Open(probe.repaired, "{") = 0
        /\ LET brackets == Open(probe.json_text, "[")
               braces == Open(probe.json_text, "{")
               n == Len(probe.repaired)
               appended == SubSeq(probe.repaired, n - (brackets + braces) + 1, n)
           IN /\ brackets + braces <= n
              /\ Count(appended, "]") = brackets
              /\ Count(appended, "}") = braces
        /\ Balanced(probe.repaired)

(***************************************************************************)
(* C29  Whenever run returns normally (terminal state COMPLETE) after      *)
(* AUDITING has executed, the returned state has an audit report whose     *)
(* passed flag is true, on every path, the handler decisions 'proceed'     *)
(* and 'add_evidence_and_proceed' included.                                *)
(***************************************************************************)
AboutToReturn == pc = "finish" /\ state = "COMPLETE"

C29_ReturnedAuditPassed ==
    /\ [](AboutToReturn /\ stats.executed["AUDITING"] > 0 =>
            /\ ~IsNone(bb.audit_report)
            /\ bb.audit_report[1].passed)
    /\ [][(AboutToReturn /\ outcome'.status # "crashed") =>
            outcome'.status = "complete"]_vars

\* the audit failed, the handler added evidence and chose to proceed
C29_Witness ==
    /\ AboutToReturn
    /\ stats.first_audit = "failed"
    /\ stats.decision = Some([action |-> "add_evidence_and_proceed",
                              evidence_text |-> "text"])
    /\ bb.audit_report[1].passed

(***************************************************************************)
(* C30  In every reachable state of a run, runs that were interrupted and  *)
(* resumed from a checkpoint the engine wrote included (in particular a    *)
(* checkpoint written after REVISION), 0 <= retry_count <= max_retries.    *)
(***************************************************************************)
C30_RetryCountInRange ==
    pc # "idle" => (0 <= bb.retry_count /\ bb.retry_count <= bb.max_retries)

(***************************************************************************)
(* C31: where a resumed run restarts                                       *)
(***************************************************************************)
\* the position of a stage in the pipeline order
Rank(s) ==
    CASE s = "INIT" -> 0
      [] s = "PREPROCESSING" -> 1
      [] s = "JD_ANALYSIS" -> 2
      [] s = "EVIDENCE_MAPPING" -> 3
      [] s = "WRITING" -> 4
      [] s = "AUDITING" -> 5
      [] s = "REVISION" -> 6
      [] OTHER -> 7

\* the run was resumed, without an override, from a checkpoint the engine
\* wrote for one of the stages
ResumedPlain ==
    /\ origin.kind = "resume"
    /\ origin.override = None
    /\ origin.stage \in Stages \ {"INIT"}

\* the stages before the checkpoint's stage that the resumed run has executed
EarlierAgain ==
    {s \in Stages : Rank(s) < Rank(origin.stage) /\ stats.executed[s] > 0}

\* C31 as stated: a run resumed without an override from the checkpoint of
\* stage S restarts at S and executes no stage that precedes S in the
\* pipeline order
C31_NoEarlierStageAgain ==
    ResumedPlain =>
        /\ (pc = "exec" /\ NothingExecuted) => state = origin.stage
        /\ EarlierAgain = {}

\* C31, amended: a run resumed without an override from the checkpoint of
\* stage S restarts at S; PREPROCESSING and JD_ANALYSIS are not executed
\* again unless they are S or follow it, WRITING and AUDITING are executed
\* again only after a REVISION or an add-evidence decision of this run, and
\* EVIDENCE_MAPPING only after an add-evidence decision
C31_RestartsAtCheckpointStage ==
    ResumedPlain =>
        /\ (pc = "exec" /\ NothingExecuted) => state = origin.stage
        /\ EarlierAgain \subseteq {"EVIDENCE_MAPPING", "WRITING", "AUDITING"}
        /\ EarlierAgain \cap {"WRITING", "AUDITING"} # {} =>
                stats.executed["REVISION"] > 0 \/ stats.adds > 0
        /\ "EVIDENCE_MAPPING" \in EarlierAgain => stats.adds > 0

\* a run resumed at AUDITING is back in WRITING after a revision
C31_Witness ==
    /\ ResumedPlain
    /\ origin.stage = "AUDITING"
    /\ stats.executed["AUDITING"] > 0
    /\ stats.executed["JD_ANALYSIS"] = 0
    /\ "WRITING" \in EarlierAgain

(***************************************************************************)
(* C32: the handler in place of the revision loop                          *)
(***************************************************************************)
\* the retry_count with which the run entered its loop
EntryRetryCount ==
    IF origin.kind = "resume" THEN origin.loaded.retry_count ELSE 0

\* C32: in a run that was given an audit_failure_handler the REVISION stage
\* is never entered and retry_count keeps the value the run started with
C32_HandlerReplacesRevision ==
    (handler /\ pc \notin {"idle"} /\ origin.kind # "none") =>
        /\ state # "REVISION"
        /\ stats.executed["REVISION"] = 0
        /\ bb.retry_count = EntryRetryCount

(***************************************************************************)
(* C33: the draft written after a revision                                 *)
(***************************************************************************)
\* the loop is about to execute WRITING after a REVISION of this run, with
\* the result cache enabled
WritingAfterRevision ==
    /\ pc = "exec"
    /\ state = "WRITING"
    /\ ~disable_cache
    /\ stats.executed["REVISION"] > 0

\* C33: with caching enabled, the WRITING execution that follows a REVISION
\* calls the drafting collaborator again rather than restoring the result
\* cached by the WRITING execution before the failed audit
C33_RevisedDraftIsNew ==
    [][(WritingAfterRevision /\ stats'.executed["WRITING"] > stats.executed["WRITING"])
            => stats'.llm["WRITING"] = stats.llm["WRITING"] + 1]_vars

(***************************************************************************)
(* C34: the state from which an overridden resume restarts                 *)
(***************************************************************************)
\* the blackboard with which a fresh run on the job description jd enters
\* JD_ANALYSIS: the inputs, what preprocessing loaded, nothing else
FreshAtJDAnalysis(b, jd) ==
    /\ b.job_description = jd
    /\ b.evidence_cards = FileCards
    /\ b.synonyms_map = Some("base")
    /\ b.retry_count = 0
    /\ b.change_log = <<>>
    /\ Cleared(b)

\* C34: after a resume with a job_description_override from a checkpoint of
\* a stage after JD analysis, the run stands at JD_ANALYSIS with the state a
\* fresh run on the new job description has there: the evidence cards as
\* preprocessing loaded them, retry_count 0, an empty change_log
C34_OverrideEqualsFresh ==
    (ResumedWithOverride /\ pc = "exec" /\ NothingExecuted) =>
        /\ state = "JD_ANALYSIS"
        /\ FreshAtJDAnalysis(bb, origin.override[1])

(***************************************************************************)
(* C35: what the result cache holds                                        *)
(***************************************************************************)
\* C35: a step that stores a result in the cache leaves a blackboard that
\* passes validate_state; a stage whose resulting state fails validation and
\* sends the run to FAILED stores nothing
C35_CachedOnlyIfValid ==
    [][cache' # cache => ~(cause' = "validation" /\ state' = "FAILED")]_vars

(***************************************************************************)
(* C36: what the REVISION stage changes                                    *)
(***************************************************************************)
\* the truth violations of the report a blackboard holds
Violations(b) ==
    IF b.audit_report = None THEN 0 ELSE b.audit_report[1].truth_violations

\* the entries of a change_log that name a fix
FixCount(log) == Cardinality({i \in 1..Len(log) : log[i] = "FIX REQUIRED"})

\* the outputs of the stages other than REVISION
OtherOutputs == {"resume_draft", "claim_index", "audit_report", "evidence_map",
                 "selected_evidence_ids", "evidence_cards"}

\* C36: the REVISION stage returns without raising, with retry_count one
\* higher, with the old change_log extended by exactly one fix instruction
\* for each truth violation of the audit report (by nothing when there is
\* none), and with every other stage output as it was
C36_RevisionFrame ==
    probe.done =>
        /\ ~probe.raised
        /\ probe.result.retry_count = probe.b.retry_count + 1
        /\ Len(probe.result.change_log) >= Len(probe.b.change_log)
        /\ SubSeq(probe.result.change_log, 1, Len(probe.b.change_log))
                = probe.b.change_log
        /\ FixCount(probe.result.change_log)
                = FixCount(probe.b.change_log) + Violations(probe.b)
        /\ Violations(probe.b) = 0 => probe.result.change_log = probe.b.change_log
        /\ \A f \in OtherOutputs : probe.result[f] = probe.b[f]

\* a report with two truth violations has been revised
C36_Witness ==
    /\ probe.done
    /\ Violations(probe.b) = MaxViolations
    /\ probe.b.resume_draft # None
    /\ FixCount(probe.result.change_log) = MaxViolations

(***************************************************************************)
(* C37: entries with a time to live                                        *)
(***************************************************************************)
\* the entry last stored for the arguments is in its file
EntryInFile(args) ==
    LET key == compute_hash(sha256, args)
        f == get_cache_path(key, "resume_writer")
        e == stored[<<"resume_writer", args>>]
    IN /\ e # None
       /\ f \in DOMAIN cache_files
       /\ cache_files[f].hash = key
       /\ cache_files[f].result = e[1].result

\* the time has passed at which the entry stored for the arguments expires
Expired(args) ==
    LET e == stored[<<"resume_writer", args>>][1]
    IN e.ttl # None /\ now > e.at + e.ttl[1]

\* C37: a get on an entry that is in its file returns the stored result and
\* leaves the file when the entry was stored without a ttl or its expiry
\* time (the time of the set plus ttl_seconds) has not passed; after the
\* expiry time it returns None and removes the file
C37_ExpiryHonoured ==
    [][(probe'.done /\ probe'.op = "get" /\ now' = now /\ EntryInFile(probe'.args[1]))
        => LET args == probe'.args[1]
               f == get_cache_path(compute_hash(sha256, args), "resume_writer")
           IN IF Expired(args)
              THEN probe'.result = None /\ f \notin DOMAIN cache_files'
              ELSE /\ probe'.result = Some(stored[<<"resume_writer", args>>][1].result)
                   /\ cache_files' = cache_files]_vars
====
